---- MODULE Spec2Model ----
(***************************************************************************)
(* A model of the signature code of cryptography-go: the short-Weierstrass *)
(* ECDSA functions of package ecdsa (sign, verifySignature,                *)
(* generateDeterministicSignature, recoverPublicKey, RecoverPublicKey,     *)
(* verifySignatureEthereum) and the twisted-Edwards EdDSA functions        *)
(* (generateEdDSAKeyPair, eddsaSign, eddsaVerify, encodePublicKey).        *)
(*                                                                         *)
(* Scaling.  The code works on 256-bit integers; TLC works on 32-bit ones. *)
(* The curve constants are therefore those of a curve of the same shape    *)
(* as secp256k1, eight bits wide instead of 256:                           *)
(*    y^2 = x^3 + 7 over F_p, p = 163 (p mod 4 = 3, p mod 3 = 1),          *)
(*    prime group order n = 139 < p, generator G = (2, 34),                *)
(*    digests of one byte (0 .. 255), so that, as for secp256k1,           *)
(*    n < p < 2^bits, 7 is no square mod p (no point has x = 0), some      *)
(*    points have x >= n, and x = n is the abscissa of a point.            *)
(* The Edwards constants are those of a curve of the same shape as          *)
(* edwards25519, fifteen bits wide instead of 255:                         *)
(*    -x^2 + y^2 = 1 + d x^2 y^2 over F_edP, edP = 2^15 - 19 (prime,       *)
(*    edP mod 8 = 5), d = -2 (no square mod edP), 8 * 4133 points, base    *)
(*    point (13972, 10917) of prime order edL = 4133; encoded points are   *)
(*    2 bytes long instead of 32 and sha512 digests 4 bytes instead of 64. *)
(* Every formula of the code is kept as written; only the constants are    *)
(* scaled.                                                                 *)
(***************************************************************************)
EXTENDS Integers, Sequences, FiniteSets, TLC

VARIABLES
    privateKey,   \* the ECDSA private key d of the run
    publicKey,    \* calculatePublicKey(privateKey)
    messageHash,  \* the digest of the message being signed, as an integer
    signState,    \* sign(): "idle", "loop" (a nonce was discarded),
                  \* "returned", "failed" (rand.Int failed), "panicked"
    sig,          \* what sign() returned: [r, s]
    memo,         \* sha256 as used by generateDeterministicK: query -> digest
    detSigs,      \* results of the calls of generateDeterministicSignature
    res,          \* the last verification or recovery call and its result
    args,         \* the arguments of a call on arbitrary inputs
    edKey,        \* what generateEdDSAKeyPair returned, and of which file
    edSigs,       \* the calls of eddsaSign: message and result
    sha512,       \* sha512 as far as it was queried: query -> digest
    edRes,        \* the last call of eddsaVerify, encodePublicKey or decode
    edPoints,     \* the curve points handed to encodePublicKey
    ped,          \* Pedersen: the generators, the commitments made and
                  \* the last call of Verify
    tree,         \* the MerkleTree: depth, leaves, nodes
    prover        \* the sigma protocol's Prover: privateKey, publicKey, r, A

\* the variables of the signing runs
signVars == <<privateKey, publicKey, messageHash, signState, sig, memo,
              detSigs>>

\* the variables of the EdDSA runs
edVars == <<edKey, edSigs, sha512, edRes, edPoints>>

\* the Merkle tree and the sigma protocol
zkVars == <<tree, prover>>

vars == <<privateKey, publicKey, messageHash, signState, sig, memo, detSigs,
          res, args, edKey, edSigs, sha512, edRes, edPoints, ped, tree,
          prover>>

----------------------------------------------------------------------------
(* Bounds of the model. *)

\* private keys 1..MaxPrivKey and n-MaxPrivKey..n-1 are tried
MaxPrivKey == 2
\* message digests e with e mod n <= MaxHash are tried (below and above n)
MaxHash == 1
\* arbitrary scalars r, s within MaxOff of 0 and of n are tried
MaxOff == 2
\* EdDSA seeds are the byte strings of the integers 0 .. MaxSeed
MaxSeed == 1
\* sha512 answers each query with one of MaxDigests sample digests
MaxDigests == 3

----------------------------------------------------------------------------
(* secp256k1 parameters (ecdsa_test.go), scaled to eight bits. *)

p == 163
Gx == 2
Gy == 34
n == 139
curveOrder == n
\* width of a message digest in bits (sha256: 256)
DigestBits == 8

----------------------------------------------------------------------------
(* Edwards25519 parameters (part_000), scaled to fifteen bits. *)

edP == 32749
edD == 32747
edGx == 13972
edGy == 10917
edL == 4133
\* length in bytes of a seed, of an encoded point and of the scalar S
\* (the code: 32); a sha512 digest and a signature are twice as long
EncLen == 2

RECURSIVE Pow2(_)
Pow2(i) == IF i = 0 THEN 1 ELSE 2 * Pow2(i - 1)

\* the values of a digest read as a big-endian integer (big.Int.SetBytes)
Digests == 0 .. (Pow2(DigestBits) - 1)

----------------------------------------------------------------------------
(* math/big *)

\* big.Int.Exp(x, e, m) for e >= 0
RECURSIVE Exp(_, _, _)
Exp(x, e, m) ==
    IF e = 0 THEN 1 % m
    ELSE LET h == Exp(x, e \div 2, m)
             sq == (h * h) % m
         IN  IF e % 2 = 1 THEN (sq * (x % m)) % m ELSE sq

\* the inverses modulo the field prime and modulo the group order, 0 where
\* there is none (tables, so that TLC computes each inverse once)
InverseModP ==
    [g \in 0 .. (p - 1) |->
        IF \E x \in 1 .. (p - 1) : (g * x) % p = 1
        THEN CHOOSE x \in 1 .. (p - 1) : (g * x) % p = 1 ELSE 0]

InverseModN ==
    [g \in 0 .. (n - 1) |->
        IF \E x \in 1 .. (n - 1) : (g * x) % n = 1
        THEN CHOOSE x \in 1 .. (n - 1) : (g * x) % n = 1 ELSE 0]

\* the inverses modulo the prime edP: g^(edP-2), which is 0 for g = 0
InverseModEdP == [g \in 0 .. (edP - 1) |-> Exp(g, edP - 2, edP)]

\* big.Int.ModInverse(g, m): the inverse of g in Z/mZ (a negative g is
\* reduced first); 0 stands for the nil it returns when there is none
ModInverse(g, m) ==
    IF m = p THEN InverseModP[g % p]
    ELSE IF m = n THEN InverseModN[g % n]
    ELSE IF m = edP THEN InverseModEdP[g % edP]
    ELSE IF \E x \in 1 .. (m - 1) : ((g % m) * x) % m = 1
         THEN CHOOSE x \in 1 .. (m - 1) : ((g % m) * x) % m = 1 ELSE 0

\* big.Int.ModInverse(g, m) is not nil
HasInverse(g, m) == ModInverse(g, m) # 0

\* big.Int.ModSqrt(x, m) for a prime m: nil when x is no square modulo m
HasSqrt(x, m) == \E y \in 0 .. (m - 1) : (y * y) % m = x % m

\* big.Int.ModSqrt(x, m) when it is not nil; for m mod 4 = 3 the library
\* returns x^((m+1)/4) mod m
ModSqrt(x, m) == Exp(x, (m + 1) \div 4, m)

----------------------------------------------------------------------------
(* Curve points.  ok = FALSE is a call that panicked (nil dereference). *)

Pt(x, y) == [ok |-> TRUE, x |-> x, y |-> y]
Crash == [ok |-> FALSE, x |-> 0, y |-> 0]

G == Pt(Gx, Gy)

\* ellipticCurveAdd without the case of two points that share x and differ
\* in y
ellipticCurveAddNoOpposite(P1, P2) ==
    IF ~P1.ok \/ ~P2.ok THEN Crash
    ELSE IF P1.x = 0 /\ P1.y = 0 THEN Pt(P2.x, P2.y)
    ELSE IF P2.x = 0 /\ P2.y = 0 THEN Pt(P1.x, P1.y)
    ELSE IF P1.x = P2.x /\ P1.y = P2.y /\ P1.y = 0 THEN Pt(0, 0)
    ELSE IF P1.x = P2.x /\ P1.y = P2.y
         THEN LET temp == (P1.x * P1.x * 3) % p
                  denom == (P1.y * 2) % p
              IN  IF ~HasInverse(denom, p) THEN Crash
                  ELSE LET slope == (ModInverse(denom, p) * temp) % p
                           x3 == (slope * slope - P1.x - P2.x) % p
                           y3 == ((P1.x - x3) * slope - P1.y) % p
                       IN  Pt(x3, y3)
    ELSE LET num == (P2.y - P1.y) % p
             denom == (P2.x - P1.x) % p
         IN  IF ~HasInverse(denom, p) THEN Crash
             ELSE LET slope == (ModInverse(denom, p) * num) % p
                      x3 == (slope * slope - P1.x - P2.x) % p
                      y3 == ((P1.x - x3) * slope - P1.y) % p
                  IN  Pt(x3, y3)

\* ellipticCurveAdd without the last reduction of y3 modulo p
ellipticCurveAddUnreduced(P1, P2) ==
    IF ~P1.ok \/ ~P2.ok THEN Crash
    ELSE IF P1.x = 0 /\ P1.y = 0 THEN Pt(P2.x, P2.y)
    ELSE IF P2.x = 0 /\ P2.y = 0 THEN Pt(P1.x, P1.y)
    ELSE IF P1.x = P2.x /\ P1.y = P2.y /\ P1.y = 0 THEN Pt(0, 0)
    ELSE IF P1.x = P2.x /\ P1.y # P2.y THEN Pt(0, 0)
    ELSE IF P1.x = P2.x /\ P1.y = P2.y
         THEN LET temp == (P1.x * P1.x * 3) % p
                  denom == (P1.y * 2) % p
              IN  IF ~HasInverse(denom, p) THEN Crash
                  ELSE LET slope == (ModInverse(denom, p) * temp) % p
                           x3 == (slope * slope - P1.x - P2.x) % p
                           y3 == (P1.x - x3) * slope - P1.y
                       IN  Pt(x3, y3)
    ELSE LET num == (P2.y - P1.y) % p
             denom == (P2.x - P1.x) % p
         IN  IF ~HasInverse(denom, p) THEN Crash
             ELSE LET slope == (ModInverse(denom, p) * num) % p
                      x3 == (slope * slope - P1.x - P2.x) % p
                      y3 == (P1.x - x3) * slope - P1.y
                  IN  Pt(x3, y3)

\* ellipticCurveAdd taking the chord slope for equal operands too
ellipticCurveAddChordOnly(P1, P2) ==
    IF ~P1.ok \/ ~P2.ok THEN Crash
    ELSE IF P1.x = 0 /\ P1.y = 0 THEN Pt(P2.x, P2.y)
    ELSE IF P2.x = 0 /\ P2.y = 0 THEN Pt(P1.x, P1.y)
    ELSE IF P1.x = P2.x /\ P1.y = P2.y /\ P1.y = 0 THEN Pt(0, 0)
    ELSE IF P1.x = P2.x /\ P1.y # P2.y THEN Pt(0, 0)
    ELSE LET num == (P2.y - P1.y) % p
             denom == (P2.x - P1.x) % p
         IN  IF ~HasInverse(denom, p) THEN Crash
             ELSE LET slope == (ModInverse(denom, p) * num) % p
                      x3 == (slope * slope - P1.x - P2.x) % p
                      y3 == ((P1.x - x3) * slope - P1.y) % p
                  IN  Pt(x3, y3)

\* ecdsa_test.go ellipticCurveAdd
ellipticCurveAdd(P1, P2) ==
    IF ~P1.ok \/ ~P2.ok THEN Crash
    ELSE IF P1.x = 0 /\ P1.y = 0 THEN Pt(P2.x, P2.y)
    ELSE IF P2.x = 0 /\ P2.y = 0 THEN Pt(P1.x, P1.y)
    ELSE IF P1.x = P2.x /\ P1.y = P2.y /\ P1.y = 0 THEN Pt(0, 0)
    ELSE IF P1.x = P2.x /\ P1.y # P2.y THEN Pt(0, 0)
    ELSE IF P1.x = P2.x /\ P1.y = P2.y
         THEN LET temp == (P1.x * P1.x * 3) % p
                  denom == (P1.y * 2) % p
              IN  IF ~HasInverse(denom, p) THEN Crash
                  ELSE LET slope == (ModInverse(denom, p) * temp) % p
                           x3 == (slope * slope - P1.x - P2.x) % p
                           y3 == ((P1.x - x3) * slope - P1.y) % p
                       IN  Pt(x3, y3)
    ELSE LET num == (P2.y - P1.y) % p
             denom == (P2.x - P1.x) % p
         IN  IF ~HasInverse(denom, p) THEN Crash
             ELSE LET slope == (ModInverse(denom, p) * num) % p
                      x3 == (slope * slope - P1.x - P2.x) % p
                      y3 == ((P1.x - x3) * slope - P1.y) % p
                  IN  Pt(x3, y3)

\* the loop of ellipticCurveMultiply adding the point before it doubles
RECURSIVE MultiplyLoopAddFirst(_, _)
MultiplyLoopAddFirst(P1, k) ==
    IF k = 0 THEN Pt(0, 0)
    ELSE LET prev == MultiplyLoopAddFirst(P1, k \div 2)
             sum == IF k % 2 = 1 THEN ellipticCurveAdd(prev, P1) ELSE prev
         IN  ellipticCurveAdd(sum, sum)

\* ecdsa_test.go ellipticCurveMultiply, the loop over the bits of k from the
\* most significant one: the result after the bits of k have been consumed
RECURSIVE MultiplyLoop(_, _)
MultiplyLoop(P1, k) ==
    IF k = 0 THEN Pt(0, 0)
    ELSE LET prev == MultiplyLoop(P1, k \div 2)
             dbl == ellipticCurveAdd(prev, prev)
         IN  IF k % 2 = 1 THEN ellipticCurveAdd(dbl, P1) ELSE dbl

\* the multiples of the generator the loop computes (a table, so that TLC
\* computes each once)
GeneratorMultiples == [k \in 1 .. (n - 1) |-> MultiplyLoop(G, k)]

\* ecdsa_test.go ellipticCurveMultiply, for k >= 0
ellipticCurveMultiply(P1, k) ==
    IF k = 0 THEN Pt(0, 0)
    ELSE IF P1 = G /\ k < n THEN GeneratorMultiples[k]
    ELSE MultiplyLoop(P1, k)

\* ecdsa_test.go calculatePublicKey
calculatePublicKey(privKey) == ellipticCurveMultiply(G, privKey)

----------------------------------------------------------------------------
(* ecdsa_test.go: random-nonce signing and verification *)

\* sign() multiplying by the nonce instead of its inverse
signAttemptNoInverse(privKey, hash, randomK) ==
    LET R == ellipticCurveMultiply(G, randomK)
        r == R.x % curveOrder
    IN  IF ~R.ok THEN [kind |-> "panic", r |-> 0, s |-> 0]
        ELSE IF r = 0 THEN [kind |-> "retry", r |-> 0, s |-> 0]
        ELSE LET s == (((privKey * r) + hash) * randomK) % curveOrder
             IN  IF s = 0 THEN [kind |-> "retry", r |-> r, s |-> 0]
                 ELSE [kind |-> "done", r |-> r, s |-> s]

\* sign() returning what it computed where it should draw again
signAttemptNoRedraw(privKey, hash, randomK) ==
    LET R == ellipticCurveMultiply(G, randomK)
        r == R.x % curveOrder
    IN  IF ~R.ok THEN [kind |-> "panic", r |-> 0, s |-> 0]
        ELSE IF r = 0 THEN [kind |-> "done", r |-> 0, s |-> 0]
        ELSE IF ~HasInverse(randomK, curveOrder)
             THEN [kind |-> "panic", r |-> r, s |-> 0]
        ELSE LET kInverse == ModInverse(randomK, curveOrder)
                 s == (((privKey * r) + hash) * kInverse) % curveOrder
             IN  [kind |-> "done", r |-> r, s |-> s]

\* one pass through the body of sign()'s loop with nonce randomK: "retry"
\* is a continue, "done" the break with (r, s), "panic" a nil dereference
signAttempt(privKey, hash, randomK) ==
    LET R == ellipticCurveMultiply(G, randomK)
        r == R.x % curveOrder
    IN  IF ~R.ok THEN [kind |-> "panic", r |-> 0, s |-> 0]
        ELSE IF r = 0 THEN [kind |-> "retry", r |-> 0, s |-> 0]
        ELSE IF ~HasInverse(randomK, curveOrder)
             THEN [kind |-> "panic", r |-> r, s |-> 0]
        ELSE LET kInverse == ModInverse(randomK, curveOrder)
                 s == (((privKey * r) + hash) * kInverse) % curveOrder
             IN  IF s = 0 THEN [kind |-> "retry", r |-> r, s |-> 0]
                 ELSE [kind |-> "done", r |-> r, s |-> s]

\* verifySignature without the upper limits of its range check
verifySignatureNoUpperLimit(pubKey, hash, r, s) ==
    IF r <= 0 \/ s <= 0
    THEN [valid |-> FALSE, mults |-> 0, panic |-> FALSE]
    ELSE IF ~HasInverse(s, curveOrder)
         THEN [valid |-> FALSE, mults |-> 0, panic |-> TRUE]
    ELSE LET w == ModInverse(s, curveOrder)
             u1 == (hash * w) % curveOrder
             u2 == (r * w) % curveOrder
             P1 == ellipticCurveMultiply(G, u1)
             P2 == ellipticCurveMultiply(pubKey, u2)
             S == ellipticCurveAdd(P1, P2)
             v == S.x % curveOrder
         IN  IF ~S.ok THEN [valid |-> FALSE, mults |-> 2, panic |-> TRUE]
             ELSE [valid |-> (v = r), mults |-> 2, panic |-> FALSE]

\* verifySignature(pubKey, message, r, s), the message given by its digest:
\* valid is the boolean returned, mults the calls of ellipticCurveMultiply
\* made, panic a nil dereference instead of a return
verifySignature(pubKey, hash, r, s) ==
    IF r <= 0 \/ r >= curveOrder \/ s <= 0 \/ s >= curveOrder
    THEN [valid |-> FALSE, mults |-> 0, panic |-> FALSE]
    ELSE IF ~HasInverse(s, curveOrder)
         THEN [valid |-> FALSE, mults |-> 0, panic |-> TRUE]
    ELSE LET w == ModInverse(s, curveOrder)
             u1 == (hash * w) % curveOrder
             u2 == (r * w) % curveOrder
             P1 == ellipticCurveMultiply(G, u1)
             P2 == ellipticCurveMultiply(pubKey, u2)
             S == ellipticCurveAdd(P1, P2)
             v == S.x % curveOrder
         IN  IF ~S.ok THEN [valid |-> FALSE, mults |-> 2, panic |-> TRUE]
             ELSE [valid |-> (v = r), mults |-> 2, panic |-> FALSE]

----------------------------------------------------------------------------
(* deterministic-nonce signing *)

\* generateDeterministicK without the replacement of 0 by 1
generateDeterministicKKeepZero(digest) == digest % curveOrder

\* generateDeterministicK(privateKey, message), given the sha256 digest of
\* 0x01..01 || 0x00 || privateKey.Bytes() || message
generateDeterministicK(digest) ==
    LET kInt == digest % curveOrder
    IN  IF kInt = 0 THEN 1 ELSE kInt

\* generateDeterministicSignature(privateKey, message) with hash the value of
\* hashMessage(message) and digest the sha256 digest generateDeterministicK
\* computes; v is a uint8
generateDeterministicSignature(privKey, hash, digest) ==
    LET k == generateDeterministicK(digest)
        R == ellipticCurveMultiply(G, k)
        r == R.x % curveOrder
        kInv == ModInverse(k, curveOrder)
        s == (((privKey * r) + hash) * kInv) % curveOrder
        v == (27 + (R.y % 2)) % 256
    IN  [r |-> r, s |-> s, v |-> v, R |-> R]

----------------------------------------------------------------------------
(* public-key recovery *)

NilPoint == [nil |-> TRUE, x |-> 0, y |-> 0, mults |-> 0, panic |-> FALSE]
Recovered(Q, m) ==
    [nil |-> FALSE, x |-> Q.x, y |-> Q.y, mults |-> m, panic |-> ~Q.ok]

\* recoverPublicKey(messageHash [32]byte, r, s, v uint8): nil is the
\* (nil, nil) return
recoverPublicKey(hash, r, s, v) ==
    IF r <= 0 \/ r >= curveOrder \/ s <= 0 \/ s >= curveOrder THEN NilPoint
    ELSE LET rx == r
             x3 == (((rx * rx) * rx) + 7) % p
         IN  IF ~HasSqrt(x3, p) THEN NilPoint
             ELSE LET root == ModSqrt(x3, p)
                      ry == IF root % 2 # (v - 27) % 256 THEN p - root ELSE root
                      e == (-hash) % curveOrder
                  IN  IF ~HasInverse(r, curveOrder) THEN NilPoint
                      ELSE LET rInv == ModInverse(r, curveOrder)
                               u1 == (e * rInv) % curveOrder
                               u2 == (s * rInv) % curveOrder
                               P1 == ellipticCurveMultiply(G, u1)
                               P2 == ellipticCurveMultiply(Pt(rx, ry), u2)
                           IN  Recovered(ellipticCurveAdd(P1, P2), 2)

\* legendre(a, p)
legendre(x, m) ==
    IF x = 0 THEN 0
    ELSE IF Exp(x, m \div 2, m) = 1 THEN 1 ELSE -1

\* modSqrt(a, p) is not nil
modSqrtExists(x, m) == legendre(x, m) = 1 /\ m % 4 = 3

\* modSqrt(a, p) when it is not nil
modSqrt(x, m) == Exp(x, (m + 1) \div 4, m)

\* calculateY(x, v) is not nil
calculateYExists(x, v) == modSqrtExists((((x * x) * x) + 7) % p, p)

\* calculateY(x, v) when it is not nil
calculateY(x, v) ==
    LET y == modSqrt((((x * x) * x) + 7) % p, p)
    IN  IF y % 2 # v THEN p - y ELSE y

Failed(msg) ==
    [err |-> msg, nil |-> TRUE, x |-> 0, y |-> 0, mults |-> 0, panic |-> FALSE]
Returned(Q, m) ==
    [err |-> "nil", nil |-> FALSE, x |-> Q.x, y |-> Q.y, mults |-> m,
     panic |-> ~Q.ok]

\* RecoverPublicKey(msgHash []byte, r, s, v uint8), len the length of msgHash
\* and hash its bytes read as an integer: err is "nil" for a nil error
RecoverPublicKey(len, hash, r, s, v) ==
    IF len # 32 THEN Failed("message hash must be 32 bytes")
    ELSE IF r >= curveOrder \/ s >= curveOrder
         THEN Failed("r or s value too large")
    ELSE LET v0 == (v - 27) % 256
         IN  IF v0 # 0 /\ v0 # 1 THEN Failed("invalid recovery id")
             ELSE IF ~calculateYExists(r, v0) THEN Failed("invalid curve point")
             ELSE IF ~HasInverse(r, curveOrder)
                  THEN Failed("r has no modular inverse")
             ELSE LET rx == r
                      ry == calculateY(rx, v0)
                      e == (-hash) % curveOrder
                      rInv == ModInverse(r, curveOrder)
                      u1 == (e * rInv) % curveOrder
                      u2 == (s * rInv) % curveOrder
                      P1 == ellipticCurveMultiply(G, u1)
                      P2 == ellipticCurveMultiply(Pt(rx, ry), u2)
                  IN  Returned(ellipticCurveAdd(P1, P2), 2)

\* RecoverPublicKeyFromRSV(msgHash []byte, r, s, v uint8)
RecoverPublicKeyFromRSV(len, hash, r, s, v) ==
    IF len # 32 THEN Failed("message hash must be 32 bytes")
    ELSE IF r >= curveOrder \/ s >= curveOrder
         THEN Failed("r or s value too large")
    ELSE IF v # 27 /\ v # 28
         THEN Failed("invalid v value: must be 27 or 28")
    ELSE RecoverPublicKey(len, hash, r, s, v)

----------------------------------------------------------------------------
(* verification against go-ethereum's secp256k1 *)

\* go-ethereum crypto.ValidateSignatureValues(v, r, s, homestead): the
\* recovery id it accepts is the raw one, 0 or 1
ValidateSignatureValues(v, r, s, homestead) ==
    IF r < 1 \/ s < 1 THEN FALSE
    ELSE IF homestead /\ s > curveOrder \div 2 THEN FALSE
    ELSE r < curveOrder /\ s < curveOrder /\ (v = 0 \/ v = 1)

\* verifySignatureEthereum(messageHash, r, s, v, pubKeyX, pubKeyY)
verifySignatureEthereum(hash, r, s, v, pubKey) ==
    IF v # 27 /\ v # 28 THEN [valid |-> FALSE, mults |-> 0, panic |-> FALSE]
    ELSE IF ~ValidateSignatureValues(v, r, s, TRUE)
         THEN [valid |-> FALSE, mults |-> 0, panic |-> FALSE]
    ELSE IF ~HasInverse(s, curveOrder)
         THEN [valid |-> FALSE, mults |-> 0, panic |-> FALSE]
    ELSE LET w == ModInverse(s, curveOrder)
             u1 == (hash * w) % curveOrder
             u2 == (r * w) % curveOrder
             P1 == ellipticCurveMultiply(G, u1)
             P2 == ellipticCurveMultiply(pubKey, u2)
             S == ellipticCurveAdd(P1, P2)
         IN  IF S.y % 2 # (v - 27) % 256
             THEN [valid |-> FALSE, mults |-> 2, panic |-> FALSE]
             ELSE [valid |-> (S.x % curveOrder = r), mults |-> 2,
                   panic |-> FALSE]

----------------------------------------------------------------------------
(* Byte slices ([]byte as a sequence of 0 .. 255) and their conversions.   *)

\* make([]byte, len)
Zeros(len) == [i \in 1 .. len |-> 0]

\* copy(dst, src): the first min(len(dst), len(src)) bytes are overwritten
Copy(dst, src) ==
    [i \in 1 .. Len(dst) |-> IF i <= Len(src) THEN src[i] ELSE dst[i]]

\* big.Int.Bytes(): big-endian, without leading zero bytes (empty for 0)
RECURSIVE Bytes(_)
Bytes(x) == IF x = 0 THEN << >> ELSE Append(Bytes(x \div 256), x % 256)

\* new(big.Int).SetBytes(b): b read as a big-endian integer
RECURSIVE SetBytes(_)
SetBytes(b) ==
    IF Len(b) = 0 THEN 0
    ELSE SetBytes(SubSeq(b, 1, Len(b) - 1)) * 256 + b[Len(b)]

\* new(big.Int).SetBytes(b) modulo m.  eddsaSign reduces once, after the
\* product and the sum; reducing the operands first gives the same S and
\* keeps the integers small.
RECURSIVE SetBytesMod(_, _)
SetBytesMod(b, m) ==
    IF Len(b) = 0 THEN 0
    ELSE (SetBytesMod(SubSeq(b, 1, Len(b) - 1), m) * 256 + b[Len(b)]) % m

\* b[from:to] of Go (0-based, to excluded)
Slice(b, from, to) == SubSeq(b, from + 1, to)

----------------------------------------------------------------------------
(* part_000: Edwards arithmetic *)

\* part_000 edwardsAdd; a nil ModInverse makes big.Int.Mul panic
edwardsAdd(P1, P2) ==
    IF ~P1.ok \/ ~P2.ok THEN Crash
    ELSE LET x1y2 == (P1.x * P2.y) % edP
             y1x2 == (P1.y * P2.x) % edP
             dx1x2y1y2 == (edD * ((x1y2 * y1x2) % edP)) % edP
             numerX == (x1y2 + y1x2) % edP
             denomX == (1 + dx1x2y1y2) % edP
             y1y2 == (P1.y * P2.y) % edP
             x1x2 == (P1.x * P2.x) % edP
             numerY == (y1y2 - x1x2) % edP
             denomY == (1 - dx1x2y1y2) % edP
         IN  IF ~HasInverse(denomX, edP) \/ ~HasInverse(denomY, edP)
             THEN Crash
             ELSE Pt((numerX * ModInverse(denomX, edP)) % edP,
                     (numerY * ModInverse(denomY, edP)) % edP)

\* edwardsScalarMult: the loop from bit j of the scalar on (bit 0 is the
\* lowest bit of scalar[0])
RECURSIVE ScalarMultLoop(_, _, _, _)
ScalarMultLoop(result, temp, scalar, j) ==
    IF j = 8 * Len(scalar) THEN result
    ELSE LET byte == scalar[(j \div 8) + 1]
             set == (byte \div Pow2(j % 8)) % 2 = 1
             result2 == IF set THEN edwardsAdd(result, temp) ELSE result
             temp2 == edwardsAdd(temp, temp)
         IN  IF ~result2.ok \/ ~temp2.ok THEN Crash
             ELSE ScalarMultLoop(result2, temp2, scalar, j + 1)

\* part_000 edwardsScalarMult
edwardsScalarMult(P, scalar) == ScalarMultLoop(Pt(0, 1), P, scalar, 0)

\* the base point
edG == Pt(edGx, edGy)

\* part_000 encodePublicKey
encodePublicKey(x, y) ==
    LET encoded == Copy(Zeros(EncLen), Bytes(x))
    IN  IF y % 2 = 1
        THEN [encoded EXCEPT ![EncLen] = IF @ >= 128 THEN @ ELSE @ + 128]
        ELSE encoded

\* the decoding of R and of the public key in eddsaVerify: x from all bytes
\* but the last, y the top bit of the last
decode(b) ==
    Pt(SetBytes(Slice(b, 0, EncLen - 1)), IF b[EncLen] >= 128 THEN 1 ELSE 0)

----------------------------------------------------------------------------
(* part_000: EdDSA.  sha512 is an argument: the digest of each query is    *)
(* handed in by the caller, who keeps sha512 a function.                   *)

\* the clamping without digest[31] &= 127
ClampKeepTopBit(digest) ==
    [digest EXCEPT ![1] = @ - (@ % 8),
                   ![EncLen] = IF @ % 128 >= 64 THEN @ ELSE @ + 64]

\* digest[0] &= 248; digest[31] &= 127; digest[31] |= 64
Clamp(digest) ==
    [digest EXCEPT ![1] = @ - (@ % 8),
                   ![EncLen] = IF @ % 128 >= 64 THEN @ % 128
                               ELSE (@ % 128) + 64]

\* part_000 generateEdDSAKeyPair, for the seed rand.Read returns and
\* digest = sha512(seed)
generateEdDSAKeyPair(seed, digest) ==
    LET A == edwardsScalarMult(edG, Slice(Clamp(digest), 0, EncLen))
    IN  [file |-> "part_000", panic |-> ~A.ok, privateKey |-> seed,
         publicKey |-> IF A.ok THEN encodePublicKey(A.x, A.y) ELSE << >>]

\* what eddsaSign hashes first: privateKey[32:] and the message
NonceInput(privKey, message) ==
    Slice(privKey, EncLen, Len(privKey)) \o message

\* eddsaSign, step 2: R = rB, encoded inline as encodePublicKey does
CommitPoint(r) == edwardsScalarMult(edG, Slice(r, 0, EncLen))

CommitBytes(r) ==
    LET Rp == CommitPoint(r)
    IN  IF Rp.ok THEN encodePublicKey(Rp.x, Rp.y) ELSE << >>

\* what eddsaSign hashes second: R, privateKey[32:] and the message
ChallengeInput(privKey, message, r) ==
    CommitBytes(r) \o Slice(privKey, EncLen, Len(privKey)) \o message

\* part_000 eddsaSign, for r = sha512(NonceInput) and
\* k = sha512(ChallengeInput)
eddsaSign(privKey, message, r, k) ==
    IF ~CommitPoint(r).ok THEN [panic |-> TRUE, sig |-> << >>]
    ELSE LET R == CommitBytes(r)
             kInt == SetBytesMod(k, edL)
             rInt == SetBytesMod(Slice(r, 0, EncLen), edL)
             x == SetBytesMod(Slice(privKey, 0, EncLen), edL)
             S == (kInt * x + rInt) % edL
         IN  [panic |-> FALSE, sig |-> R \o Copy(Zeros(EncLen), Bytes(S))]

\* what eddsaVerify hashes: R, the public key and the message
VerifyInput(pubKey, message, signature) ==
    Slice(signature, 0, EncLen) \o pubKey \o message

\* part_000 eddsaVerify, for k = sha512(VerifyInput)
eddsaVerify(pubKey, message, signature, k) ==
    IF Len(signature) # 2 * EncLen THEN [valid |-> FALSE, panic |-> FALSE]
    ELSE LET R == Slice(signature, 0, EncLen)
             S == Slice(signature, EncLen, 2 * EncLen)
             sB == edwardsScalarMult(edG, S)
             kA == edwardsScalarMult(decode(pubKey), k)
             right == edwardsAdd(decode(R), kA)
         IN  IF ~sB.ok \/ ~right.ok THEN [valid |-> FALSE, panic |-> TRUE]
             ELSE [valid |-> (sB.x = right.x /\ sB.y = right.y),
                   panic |-> FALSE]

----------------------------------------------------------------------------
(* eddsa_test.go: the same three functions with the curve arithmetic left  *)
(* out; the digests they compute are discarded.                            *)

\* eddsa_test.go generateEdDSAKeyPair
generateEdDSAKeyPairStub(seed) ==
    [file |-> "eddsa_test.go", panic |-> FALSE, privateKey |-> seed,
     publicKey |-> Zeros(EncLen)]

\* eddsa_test.go eddsaSign
eddsaSignStub(privKey, message) ==
    LET R == Zeros(EncLen)
        S == Zeros(EncLen)
    IN  [panic |-> FALSE,
         sig |-> Copy(Zeros(EncLen), R) \o Copy(Zeros(EncLen), S)]

\* eddsa_test.go eddsaVerify
eddsaVerifyStub(pubKey, message, signature) ==
    IF Len(signature) # 2 * EncLen THEN [valid |-> FALSE, panic |-> FALSE]
    ELSE [valid |-> TRUE, panic |-> FALSE]

----------------------------------------------------------------------------
(* The signing runs: a key and a message digest are fixed, then either     *)
(* sign() or generateDeterministicSignature() produces a signature, which  *)
(* the verification and recovery functions are applied to.                 *)

PrivKeys ==
    {d \in 1 .. (n - 1) : d <= MaxPrivKey \/ d >= n - MaxPrivKey}

MsgDigests == {e \in Digests : e % n <= MaxHash}

NoSig == [r |-> 0, s |-> 0]
NoCall == [op |-> "none"]
NoArgs == [hash |-> 0, r |-> 0, s |-> 0, v |-> 0, len |-> 0]
EmptyMemo == [q \in {} |-> 0]
NoEdKey == [file |-> "none"]

\* no EdDSA function was called
EdIdle ==
    /\ edKey = NoEdKey
    /\ edSigs = << >>
    /\ sha512 = EmptyMemo
    /\ edRes = NoCall
    /\ edPoints = << >>

\* no Pedersen function was called
NoPedersen ==
    [state |-> "none", pc |-> [G |-> 0, H |-> 0], commits |-> << >>,
     call |-> NoCall]
PedIdle == ped = NoPedersen

\* no MerkleTree and no Prover was made
NoTree == [state |-> "none", depth |-> 0, leaves |-> << >>, nodes |-> << >>]
NoProver == [state |-> "none", privateKey |-> 0, publicKey |-> 0, r |-> 0,
             A |-> 0]
ZkIdle == tree = NoTree /\ prover = NoProver

InitSign ==
    /\ privateKey \in PrivKeys
    /\ publicKey = calculatePublicKey(privateKey)
    /\ messageHash \in MsgDigests
    /\ signState = "idle"
    /\ sig = NoSig
    /\ memo = EmptyMemo
    /\ detSigs = << >>
    /\ res = NoCall
    /\ args = NoArgs
    /\ EdIdle
    /\ PedIdle
    /\ ZkIdle

\* sign(): one pass of the loop, with the nonce rand.Int returns
SignDraw ==
    /\ signState \in {"idle", "loop"}
    /\ detSigs = << >>
    /\ \E randomK \in 0 .. (curveOrder - 1) :
          LET t == signAttempt(privateKey, messageHash, randomK)
          IN  /\ signState' = CASE t.kind = "done" -> "returned"
                                [] t.kind = "retry" -> "loop"
                                [] OTHER -> "panicked"
              /\ sig' = IF t.kind = "done" THEN [r |-> t.r, s |-> t.s] ELSE sig
    /\ UNCHANGED <<privateKey, publicKey, messageHash, memo, detSigs, res,
                   args, edVars, ped, zkVars>>

\* sign(): rand.Int returns an error, which sign() returns
SignRandFail ==
    /\ signState \in {"idle", "loop"}
    /\ detSigs = << >>
    /\ signState' = "failed"
    /\ UNCHANGED <<privateKey, publicKey, messageHash, sig, memo, detSigs, res,
                   args, edVars, ped, zkVars>>

\* Test_generate_ecdsa: verifySignature on what sign() returned
VerifySigned ==
    /\ signState = "returned"
    /\ res' = [op |-> "verifySignature",
               out |-> verifySignature(publicKey, messageHash, sig.r, sig.s)]
    /\ UNCHANGED <<signVars, args, edVars, ped, zkVars>>

\* the query generateDeterministicK hashes
NonceQuery == <<privateKey, messageHash>>

\* generateDeterministicSignature drawing a fresh nonce on every call
DetSignFreshNonce ==
    /\ signState = "idle"
    /\ Len(detSigs) < 2
    /\ \E digest \in Digests :
          /\ memo' = (NonceQuery :> digest) @@ memo
          /\ detSigs' = Append(detSigs,
                 generateDeterministicSignature(privateKey, messageHash, digest))
    /\ UNCHANGED <<privateKey, publicKey, messageHash, signState, sig, res,
                   args, edVars, ped, zkVars>>

\* a call of generateDeterministicSignature; sha256 is a function, so a
\* query asked before gets the digest it got before
DetSign ==
    /\ signState = "idle"
    /\ Len(detSigs) < 2
    /\ \E digest \in Digests :
          /\ NonceQuery \in DOMAIN memo => digest = memo[NonceQuery]
          /\ memo' = (NonceQuery :> digest) @@ memo
          /\ detSigs' = Append(detSigs,
                 generateDeterministicSignature(privateKey, messageHash, digest))
    /\ UNCHANGED <<privateKey, publicKey, messageHash, signState, sig, res,
                   args, edVars, ped, zkVars>>

\* Test_signature_recovery_flow: recoverPublicKey on the signature
RecoverUnexported ==
    /\ Len(detSigs) > 0
    /\ LET g == detSigs[1]
       IN  res' = [op |-> "recoverPublicKey",
                   out |-> recoverPublicKey(messageHash, g.r, g.s, g.v)]
    /\ UNCHANGED <<signVars, args, edVars, ped, zkVars>>

\* RecoverPublicKey on the signature (the call Test_signature_recovery_flow
\* keeps in a comment)
RecoverExported ==
    /\ Len(detSigs) > 0
    /\ LET g == detSigs[1]
       IN  res' = [op |-> "RecoverPublicKey",
                   out |-> RecoverPublicKey(32, messageHash, g.r, g.s, g.v)]
    /\ UNCHANGED <<signVars, args, edVars, ped, zkVars>>

\* Test_verify_signature, step 4
VerifyEthereum ==
    /\ Len(detSigs) > 0
    /\ LET g == detSigs[1]
       IN  res' = [op |-> "verifySignatureEthereum",
                   out |-> verifySignatureEthereum(messageHash, g.r, g.s, g.v,
                                                   publicKey)]
    /\ UNCHANGED <<signVars, args, edVars, ped, zkVars>>

\* Test_verify_signature, step 5: the same call with s + 1
VerifyEthereumInvalidS ==
    /\ Len(detSigs) > 0
    /\ LET g == detSigs[1]
       IN  res' = [op |-> "verifySignatureEthereum(s+1)",
                   out |-> verifySignatureEthereum(messageHash, g.r, g.s + 1,
                                                   g.v, publicKey)]
    /\ UNCHANGED <<signVars, args, edVars, ped, zkVars>>

NextSign ==
    \/ SignDraw
    \/ SignRandFail
    \/ VerifySigned
    \/ DetSign
    \/ RecoverUnexported
    \/ RecoverExported
    \/ VerifyEthereum
    \/ VerifyEthereumInvalidS

SpecSign == InitSign /\ [][NextSign]_vars

----------------------------------------------------------------------------
(* The calls on arbitrary arguments: a digest, r, s and v are drawn, in and *)
(* out of their legal ranges, and each verification and recovery function  *)
(* is applied to them.  The public key is G (private key 1).               *)

ScalarInputs ==
    {x \in (0 - MaxOff) .. (n + MaxOff) : x <= MaxOff \/ x >= n - MaxOff}

\* values of the uint8 v: the legal 27 and 28, their neighbours, the raw
\* recovery ids and the largest byte
VInputs == {0, 1, 26, 27, 28, 29, 255}

\* lengths of the msgHash slice
LenInputs == {31, 32}

InitRange ==
    /\ privateKey = 1
    /\ publicKey = calculatePublicKey(privateKey)
    /\ messageHash = 0
    /\ signState = "idle"
    /\ sig = NoSig
    /\ memo = EmptyMemo
    /\ detSigs = << >>
    /\ res = NoCall
    /\ args \in [hash : MsgDigests, r : ScalarInputs, s : ScalarInputs,
                 v : VInputs, len : LenInputs]
    /\ EdIdle
    /\ PedIdle
    /\ ZkIdle

CallVerifySignature ==
    /\ res' = [op |-> "verifySignature",
               out |-> verifySignature(publicKey, args.hash, args.r, args.s)]
    /\ UNCHANGED <<signVars, args, edVars, ped, zkVars>>

CallVerifySignatureEthereum ==
    /\ res' = [op |-> "verifySignatureEthereum",
               out |-> verifySignatureEthereum(args.hash, args.r, args.s,
                                               args.v, publicKey)]
    /\ UNCHANGED <<signVars, args, edVars, ped, zkVars>>

CallRecoverUnexported ==
    /\ res' = [op |-> "recoverPublicKey",
               out |-> recoverPublicKey(args.hash, args.r, args.s, args.v)]
    /\ UNCHANGED <<signVars, args, edVars, ped, zkVars>>

CallRecoverPublicKey ==
    /\ res' = [op |-> "RecoverPublicKey",
               out |-> RecoverPublicKey(args.len, args.hash, args.r, args.s,
                                        args.v)]
    /\ UNCHANGED <<signVars, args, edVars, ped, zkVars>>

CallRecoverPublicKeyFromRSV ==
    /\ res' = [op |-> "RecoverPublicKeyFromRSV",
               out |-> RecoverPublicKeyFromRSV(args.len, args.hash, args.r,
                                               args.s, args.v)]
    /\ UNCHANGED <<signVars, args, edVars, ped, zkVars>>

NextRange ==
    \/ CallVerifySignature
    \/ CallVerifySignatureEthereum
    \/ CallRecoverUnexported
    \/ CallRecoverPublicKey
    \/ CallRecoverPublicKeyFromRSV

SpecRange == InitRange /\ [][NextRange]_vars

----------------------------------------------------------------------------
(* The EdDSA runs (Test_EdDSA): a key pair is generated, a message is      *)
(* signed, and the signature is verified against that message or another.  *)
(* sha512 is sampled as it is queried: a query asked before gets the       *)
(* digest it got before, a new query gets any of the sample digests.       *)

\* no ECDSA function was called
SignIdle ==
    /\ privateKey = 0
    /\ publicKey = Pt(0, 0)
    /\ messageHash = 0
    /\ signState = "idle"
    /\ sig = NoSig
    /\ memo = EmptyMemo
    /\ detSigs = << >>
    /\ res = NoCall
    /\ args = NoArgs

\* the seeds rand.Read returns
EdSeeds == {Copy(Zeros(EncLen), Bytes(v)) : v \in 0 .. MaxSeed}

\* the messages "abc" and "abd"
Messages == {<<97, 98, 99>>, <<97, 98, 100>>}

\* sample digests, 2 * EncLen bytes each
SampleDigest(i) ==
    [j \in 1 .. (2 * EncLen) |-> (83 * i + 59 * i * j + 7 * j) % 256]

Sha512Outputs == {SampleDigest(i) : i \in 1 .. MaxDigests}

\* h.Sum(nil) may be digest for the query q
Answers(h, q, digest) == q \in DOMAIN h => h[q] = digest

\* sha512 once q was answered with digest
Ask(h, q, digest) == (q :> digest) @@ h

InitEdDSA ==
    /\ SignIdle
    /\ EdIdle
    /\ PedIdle
    /\ ZkIdle

\* part_000 generateEdDSAKeyPair
GenerateKeyPair ==
    /\ edKey = NoEdKey
    /\ edRes = NoCall
    /\ \E seed \in EdSeeds, digest \in Sha512Outputs :
          /\ Answers(sha512, seed, digest)
          /\ sha512' = Ask(sha512, seed, digest)
          /\ edKey' = generateEdDSAKeyPair(seed, digest)
    /\ UNCHANGED <<signVars, res, args, edSigs, edRes, edPoints, ped, zkVars>>

\* eddsa_test.go generateEdDSAKeyPair
StubGenerateKeyPair ==
    /\ edKey = NoEdKey
    /\ edRes = NoCall
    /\ \E seed \in EdSeeds : edKey' = generateEdDSAKeyPairStub(seed)
    /\ UNCHANGED <<signVars, res, args, edSigs, sha512, edRes, edPoints,
                   ped, zkVars>>

\* part_000 eddsaSign drawing its nonce digest afresh on every call
EdSignFreshNonce ==
    /\ edKey.file = "part_000"
    /\ ~edKey.panic
    /\ edRes = NoCall
    /\ Len(edSigs) < 2
    /\ \E m \in Messages, r \in Sha512Outputs, k \in Sha512Outputs :
          LET q1 == NonceInput(edKey.privateKey, m)
              h1 == Ask(sha512, q1, r)
              q2 == ChallengeInput(edKey.privateKey, m, r)
          IN  /\ Len(edSigs) = 1 => m = edSigs[1].msg
              /\ q2 = q1 => k = r
              /\ sha512' = Ask(h1, q2, k)
              /\ edSigs' = Append(edSigs,
                     [msg |-> m] @@ eddsaSign(edKey.privateKey, m, r, k))
    /\ UNCHANGED <<signVars, res, args, edKey, edRes, edPoints, ped, zkVars>>

\* part_000 eddsaSign; Test_EdDSA calls it once, a second call repeats the
\* first.  (When R = rB panics no second digest is computed: the second
\* query is then the first again.)
EdSign ==
    /\ edKey.file = "part_000"
    /\ ~edKey.panic
    /\ edRes = NoCall
    /\ Len(edSigs) < 2
    /\ \E m \in Messages, r \in Sha512Outputs, k \in Sha512Outputs :
          LET q1 == NonceInput(edKey.privateKey, m)
              h1 == Ask(sha512, q1, r)
              q2 == ChallengeInput(edKey.privateKey, m, r)
          IN  /\ Len(edSigs) = 1 => m = edSigs[1].msg
              /\ Answers(sha512, q1, r)
              /\ Answers(h1, q2, k)
              /\ sha512' = Ask(h1, q2, k)
              /\ edSigs' = Append(edSigs,
                     [msg |-> m] @@ eddsaSign(edKey.privateKey, m, r, k))
    /\ UNCHANGED <<signVars, res, args, edKey, edRes, edPoints, ped, zkVars>>

\* eddsa_test.go eddsaSign
StubSign ==
    /\ edKey.file = "eddsa_test.go"
    /\ edRes = NoCall
    /\ Len(edSigs) < 2
    /\ \E m \in Messages :
          /\ Len(edSigs) = 1 => m = edSigs[1].msg
          /\ edSigs' = Append(edSigs,
                 [msg |-> m] @@ eddsaSignStub(edKey.privateKey, m))
    /\ UNCHANGED <<signVars, res, args, edKey, sha512, edRes, edPoints,
                   ped, zkVars>>

\* part_000 eddsaVerify on the signature, for the message signed or the
\* other one; as in Test_EdDSA it is the last call of the run
EdVerify ==
    /\ edKey.file = "part_000"
    /\ edRes = NoCall
    /\ Len(edSigs) > 0
    /\ ~edSigs[1].panic
    /\ \E m \in Messages, k \in Sha512Outputs :
          LET q == VerifyInput(edKey.publicKey, m, edSigs[1].sig)
          IN  /\ Answers(sha512, q, k)
              /\ sha512' = Ask(sha512, q, k)
              /\ edRes' = [op |-> "eddsaVerify", publicKey |-> edKey.publicKey,
                           msg |-> m, sig |-> edSigs[1].sig,
                           out |-> eddsaVerify(edKey.publicKey, m,
                                               edSigs[1].sig, k)]
    /\ UNCHANGED <<signVars, res, args, edKey, edSigs, edPoints, ped, zkVars>>

\* eddsa_test.go eddsaVerify on the signature
StubVerify ==
    /\ edKey.file = "eddsa_test.go"
    /\ edRes = NoCall
    /\ Len(edSigs) > 0
    /\ \E m \in Messages :
          edRes' = [op |-> "eddsaVerify", publicKey |-> edKey.publicKey,
                    msg |-> m, sig |-> edSigs[1].sig,
                    out |-> eddsaVerifyStub(edKey.publicKey, m,
                                            edSigs[1].sig)]
    /\ UNCHANGED <<signVars, res, args, edKey, edSigs, sha512, edPoints,
                   ped, zkVars>>

\* encoded points a caller may hand to eddsaVerify
EncodedInputs == {<<a, b>> : a \in {0, 1}, b \in {0, 128}}

\* signatures a caller may hand to eddsaVerify: R || S, and R alone
SignatureInputs ==
    {R \o S : R \in EncodedInputs, S \in {<<0, 0>>, <<1, 0>>}}
        \cup EncodedInputs

\* part_000 eddsaVerify on a public key and a signature of the caller's
\* choice, no signature having been made
EdVerifyArbitrary ==
    /\ edKey = NoEdKey
    /\ edRes = NoCall
    /\ \E pk \in EncodedInputs, sg \in SignatureInputs, m \in Messages,
          k \in Sha512Outputs :
          LET q == VerifyInput(pk, m, sg)
          IN  /\ sha512' = IF Len(sg) = 2 * EncLen THEN Ask(sha512, q, k)
                           ELSE sha512
              /\ Len(sg) # 2 * EncLen => k = SampleDigest(1)
              /\ edRes' = [op |-> "eddsaVerify", publicKey |-> pk, msg |-> m,
                           sig |-> sg, out |-> eddsaVerify(pk, m, sg, k)]
    /\ UNCHANGED <<signVars, res, args, edKey, edSigs, edPoints, ped, zkVars>>

NextEdDSA ==
    \/ GenerateKeyPair
    \/ StubGenerateKeyPair
    \/ EdSign
    \/ StubSign
    \/ EdVerify
    \/ StubVerify
    \/ EdVerifyArbitrary

SpecEdDSA == InitEdDSA /\ [][NextEdDSA]_vars

----------------------------------------------------------------------------
(* The encoding of curve points: two points of the curve are handed to     *)
(* encodePublicKey, and what it returns is decoded as eddsaVerify decodes  *)
(* R and the public key.                                                   *)

\* (x, y) satisfies -x^2 + y^2 = 1 + d x^2 y^2 over F_edP
OnCurve(x, y) ==
    LET xx == (x * x) % edP
        yy == (y * y) % edP
    IN  (yy - xx) % edP = (1 + edD * ((xx * yy) % edP)) % edP

\* points of the curve: the neutral element, the point of order 2, the two
\* points with y = 0, the base point and its mirror images, and points
\* with a short x
CurvePoints ==
    {P \in {Pt(0, 1), Pt(0, edP - 1), Pt(15645, 0), Pt(17104, 0),
            Pt(edGx, edGy), Pt(edGx, edP - edGy),
            Pt(edP - edGx, edGy), Pt(edP - edGx, edP - edGy),
            Pt(2, 2545), Pt(2, 30204), Pt(259, 9801), Pt(259, 22948)} :
        OnCurve(P.x, P.y)}

InitEncode ==
    /\ SignIdle
    /\ edKey = NoEdKey
    /\ edSigs = << >>
    /\ sha512 = EmptyMemo
    /\ edRes = NoCall
    /\ edPoints \in CurvePoints \X CurvePoints
    /\ PedIdle
    /\ ZkIdle

\* encodePublicKey on each of the two points
EncodePoints ==
    /\ edRes = NoCall
    /\ edRes' = [op |-> "encodePublicKey",
                 out |-> [i \in 1 .. 2 |->
                             encodePublicKey(edPoints[i].x, edPoints[i].y)]]
    /\ UNCHANGED <<signVars, res, args, edKey, edSigs, sha512, edPoints,
                   ped, zkVars>>

\* the decoding of eddsaVerify on each of the two encodings
DecodePoints ==
    /\ edRes.op = "encodePublicKey"
    /\ edRes' = [op |-> "decode", in |-> edRes.out,
                 out |-> [i \in 1 .. 2 |-> decode(edRes.out[i])]]
    /\ UNCHANGED <<signVars, res, args, edKey, edSigs, sha512, edPoints,
                   ped, zkVars>>

NextEncode ==
    \/ EncodePoints
    \/ DecodePoints

SpecEncode == InitEncode /\ [][NextEncode]_vars

----------------------------------------------------------------------------
(* Key generation (Test_generate_ecdsa, first steps): generatePrivateKey   *)
(* draws the key, calculatePublicKey derives the public key.               *)

InitKeyGen ==
    /\ SignIdle
    /\ EdIdle
    /\ PedIdle
    /\ ZkIdle

\* generatePrivateKey: rand.Int(rand.Reader, n) returns a value of [0, n)
GeneratePrivateKey ==
    /\ res = NoCall
    /\ \E d \in 0 .. (n - 1) :
          /\ privateKey' = d
          /\ res' = [op |-> "generatePrivateKey", err |-> FALSE]
    /\ UNCHANGED <<publicKey, messageHash, signState, sig, memo, detSigs,
                   args, edVars, ped, zkVars>>

\* generatePrivateKey: rand.Int returns an error
GeneratePrivateKeyFails ==
    /\ res = NoCall
    /\ res' = [op |-> "generatePrivateKey", err |-> TRUE]
    /\ UNCHANGED <<signVars, args, edVars, ped, zkVars>>

\* calculatePublicKey on the generated key
CalculatePublicKey ==
    /\ res.op = "generatePrivateKey"
    /\ ~res.err
    /\ publicKey' = calculatePublicKey(privateKey)
    /\ res' = [op |-> "calculatePublicKey", err |-> FALSE]
    /\ UNCHANGED <<privateKey, messageHash, signState, sig, memo, detSigs,
                   args, edVars, ped, zkVars>>

NextKeyGen ==
    \/ GeneratePrivateKey
    \/ GeneratePrivateKeyFails
    \/ CalculatePublicKey

SpecKeyGen == InitKeyGen /\ [][NextKeyGen]_vars

----------------------------------------------------------------------------
(* Pedersen commitments (pedersen.go) over bn254.G1, a group of prime      *)
(* order whose scalars are the elements of fr.  The group is scaled to     *)
(* order frModulus = 5 and a point is written as the multiple of the       *)
(* generator (1, 2) it is: 0 is the point at infinity, 1 the generator.    *)

frModulus == 5

\* the elements of fr
frElements == 0 .. (frModulus - 1)

\* fr.Element.Add
frAdd(x, y) == (x + y) % frModulus

\* bn254.G1Affine.Add
G1Add(P, Q) == (P + Q) % frModulus

\* bn254.G1Affine.ScalarMultiplication(P, k)
G1ScalarMultiplication(P, k) == (k * P) % frModulus

\* NewPedersen: G is the generator (1, 2); H is the point
\* generateSecondGenerator returns, neither infinity nor G
NewPedersen(h) == [G |-> 1, H |-> h]

\* PedersenCommitment.Commit(m), r the value of SetRandom
Commit(pc, m, r) ==
    LET mG == G1ScalarMultiplication(pc.G, m)
        rH == G1ScalarMultiplication(pc.H, r)
    IN  [c |-> [P |-> G1Add(mG, rH)], o |-> [M |-> m, R |-> r]]

\* PedersenCommitment.Verify(commitment, opening)
Verify(pc, commitment, opening) ==
    LET mG == G1ScalarMultiplication(pc.G, opening.M)
        rH == G1ScalarMultiplication(pc.H, opening.R)
        expected == G1Add(mG, rH)
    IN  expected = commitment.P

\* PedersenCommitment.Add
Add(c1, c2) == [P |-> G1Add(c1.P, c2.P)]

\* OpenAdd forgetting the second blinding factor
OpenAddFirstR(o1, o2) == [M |-> frAdd(o1.M, o2.M), R |-> o1.R]

\* PedersenCommitment.OpenAdd
OpenAdd(o1, o2) == [M |-> frAdd(o1.M, o2.M), R |-> frAdd(o1.R, o2.R)]

----------------------------------------------------------------------------
(* The Pedersen runs (TestPedersenCommitment): an instance is created, up  *)
(* to two values are committed to, and Verify is called on a commitment    *)
(* with an opening, or on the sum of the two with the sum of the openings. *)

InitPedersen ==
    /\ SignIdle
    /\ EdIdle
    /\ PedIdle
    /\ ZkIdle

\* NewPedersen returning an instance
PedNew ==
    /\ ped.state = "none"
    /\ \E h \in 2 .. (frModulus - 1) :
          ped' = [ped EXCEPT !.state = "ready", !.pc = NewPedersen(h)]
    /\ UNCHANGED <<signVars, res, args, edVars, zkVars>>

\* NewPedersen returning an error (generateSecondGenerator failed)
PedNewFails ==
    /\ ped.state = "none"
    /\ ped' = [ped EXCEPT !.state = "error"]
    /\ UNCHANGED <<signVars, res, args, edVars, zkVars>>

\* pc.Commit(m)
PedCommit ==
    /\ ped.state = "ready"
    /\ ped.call = NoCall
    /\ Len(ped.commits) < 2
    /\ \E m \in frElements, r \in frElements :
          ped' = [ped EXCEPT !.commits = Append(@, Commit(ped.pc, m, r))]
    /\ UNCHANGED <<signVars, res, args, edVars, zkVars>>

\* pc.Verify on a commitment made and an opening of the caller's choice
PedVerify ==
    /\ ped.state = "ready"
    /\ ped.call = NoCall
    /\ \E i \in 1 .. Len(ped.commits), m \in frElements, r \in frElements :
          LET o == [M |-> m, R |-> r]
          IN  ped' = [ped EXCEPT !.call =
                         [op |-> "Verify", of |-> ped.commits[i], o |-> o,
                          out |-> Verify(ped.pc, ped.commits[i].c, o)]]
    /\ UNCHANGED <<signVars, res, args, edVars, zkVars>>

\* pc.Verify(pc.Add(c1, c2), pc.OpenAdd(o1, o2))
PedVerifySum ==
    /\ ped.state = "ready"
    /\ ped.call = NoCall
    /\ Len(ped.commits) = 2
    /\ LET sumCommitment == Add(ped.commits[1].c, ped.commits[2].c)
           sumOpening == OpenAdd(ped.commits[1].o, ped.commits[2].o)
       IN  ped' = [ped EXCEPT !.call =
                      [op |-> "Verify(Add)",
                       of |-> [c |-> sumCommitment, o |-> sumOpening],
                       o |-> sumOpening,
                       out |-> Verify(ped.pc, sumCommitment, sumOpening)]]
    /\ UNCHANGED <<signVars, res, args, edVars, zkVars>>

NextPedersen ==
    \/ PedNew
    \/ PedNewFails
    \/ PedCommit
    \/ PedVerify
    \/ PedVerifySum

SpecPedersen == InitPedersen /\ [][NextPedersen]_vars

----------------------------------------------------------------------------
(* Scalar multiplication: a point of the curve is added to itself k times  *)
(* with ellipticCurveAdd, and ellipticCurveMultiply is called with k.      *)

\* the points multiplied: the public keys of the private keys tried
MultiplyPoints == {calculatePublicKey(d) : d \in PrivKeys}

\* the scalars go past twice the group order
MaxScalar == 2 * n + MaxOff

InitMultiply ==
    /\ privateKey = 0
    /\ publicKey = Pt(0, 0)
    /\ messageHash = 0
    /\ signState = "idle"
    /\ sig = NoSig
    /\ memo = EmptyMemo
    /\ detSigs = << >>
    /\ res = NoCall
    /\ args \in [P : MultiplyPoints, k : {0}, sum : {Pt(0, 0)}]
    /\ EdIdle
    /\ PedIdle
    /\ ZkIdle

\* one more ellipticCurveAdd of the point to the sum
AddOnce ==
    /\ args.k < MaxScalar
    /\ args' = [args EXCEPT !.k = @ + 1,
                            !.sum = ellipticCurveAdd(@, args.P)]
    /\ res' = NoCall
    /\ UNCHANGED <<signVars, edVars, ped, zkVars>>

\* ellipticCurveMultiply(P, k)
CallMultiply ==
    /\ res = NoCall
    /\ res' = [op |-> "ellipticCurveMultiply",
               out |-> ellipticCurveMultiply(args.P, args.k)]
    /\ UNCHANGED <<signVars, args, edVars, ped, zkVars>>

NextMultiply ==
    \/ AddOnce
    \/ CallMultiply

SpecMultiply == InitMultiply /\ [][NextMultiply]_vars

----------------------------------------------------------------------------
(* Point addition: ellipticCurveAdd is called on every pair of operands     *)
(* drawn from the (0,0) sentinel, the points of the curve, and two pairs    *)
(* off the curve that have a zero coordinate.                               *)

\* ecdsa_test.go: the curve equation y^2 = x^3 + 7 (mod p) on reduced
\* coordinates
IsOnCurve(x, y) ==
    /\ x \in 0 .. (p - 1)
    /\ y \in 0 .. (p - 1)
    /\ (y * y - x * x * x - 7) % p = 0

\* every reduced point of the curve
WeierstrassPoints ==
    {pt \in {Pt(x, y) : x \in 0 .. (p - 1), y \in 0 .. (p - 1)} :
        IsOnCurve(pt.x, pt.y)}

\* the operands of ellipticCurveAdd: (1,0) is a pair with y = 0, (0,1) a
\* pair that shares x with the sentinel
AddOperands == {Pt(0, 0), Pt(1, 0), Pt(0, 1)} \cup WeierstrassPoints

InitCurveAdd ==
    /\ privateKey = 0
    /\ publicKey = Pt(0, 0)
    /\ messageHash = 0
    /\ signState = "idle"
    /\ sig = NoSig
    /\ memo = EmptyMemo
    /\ detSigs = << >>
    /\ res = NoCall
    /\ args \in [P : AddOperands, Q : AddOperands]
    /\ EdIdle
    /\ PedIdle
    /\ ZkIdle

\* ellipticCurveAdd(P, Q)
CallAdd ==
    /\ res = NoCall
    /\ res' = [op |-> "ellipticCurveAdd",
               out |-> ellipticCurveAdd(args.P, args.Q)]
    /\ UNCHANGED <<signVars, args, edVars, ped, zkVars>>

NextCurveAdd == CallAdd

SpecCurveAdd == InitCurveAdd /\ [][NextCurveAdd]_vars

----------------------------------------------------------------------------
(* Edwards addition: edwardsAdd is called on every pair of the points of   *)
(* the curve listed in CurvePoints.                                        *)

InitEdwardsAdd ==
    /\ SignIdle
    /\ edKey = NoEdKey
    /\ edSigs = << >>
    /\ sha512 = EmptyMemo
    /\ edRes = NoCall
    /\ edPoints \in CurvePoints \X CurvePoints
    /\ PedIdle
    /\ ZkIdle

\* edwardsAdd(P, Q)
CallEdwardsAdd ==
    /\ edRes = NoCall
    /\ edRes' = [op |-> "edwardsAdd",
                 out |-> edwardsAdd(edPoints[1], edPoints[2])]
    /\ UNCHANGED <<signVars, res, args, edKey, edSigs, sha512, edPoints,
                   ped, zkVars>>

NextEdwardsAdd == CallEdwardsAdd

SpecEdwardsAdd == InitEdwardsAdd /\ [][NextEdwardsAdd]_vars

----------------------------------------------------------------------------
(* Edwards scalar multiplication: a point is added to the neutral element  *)
(* k times with edwardsAdd, and edwardsScalarMult is called with the       *)
(* little-endian bytes of k.                                               *)

\* the little-endian encoding of k in len bytes
LittleEndian(k, len) == [i \in 1 .. len |-> (k \div Pow2(8 * (i - 1))) % 256]

\* the scalars go past the first bit of the second byte
MaxEdScalar == Pow2(8) + MaxOff

\* the lengths of the scalars: from the empty scalar on
ScalarLens == 0 .. EncLen

InitScalarMult ==
    /\ privateKey = 0
    /\ publicKey = Pt(0, 0)
    /\ messageHash = 0
    /\ signState = "idle"
    /\ sig = NoSig
    /\ memo = EmptyMemo
    /\ detSigs = << >>
    /\ res = NoCall
    /\ args \in [P : CurvePoints, k : {0}, sum : {Pt(0, 1)}]
    /\ edKey = NoEdKey
    /\ edSigs = << >>
    /\ sha512 = EmptyMemo
    /\ edRes = NoCall
    /\ edPoints = <<Pt(0, 1), Pt(0, 1)>>
    /\ PedIdle
    /\ ZkIdle

\* one more edwardsAdd of the point to the sum
EdwardsAddOnce ==
    /\ args.k < MaxEdScalar
    /\ args' = [args EXCEPT !.k = @ + 1,
                            !.sum = edwardsAdd(@, args.P)]
    /\ edRes' = NoCall
    /\ UNCHANGED <<signVars, res, edKey, edSigs, sha512, edPoints, ped, zkVars>>

\* edwardsScalarMult(P, scalar) for an encoding of k
CallScalarMult ==
    /\ edRes = NoCall
    /\ \E len \in ScalarLens :
        /\ args.k < Pow2(8 * len)
        /\ edRes' = [op |-> "edwardsScalarMult",
                     scalar |-> LittleEndian(args.k, len),
                     out |-> edwardsScalarMult(args.P,
                                               LittleEndian(args.k, len))]
    /\ UNCHANGED <<signVars, res, args, edKey, edSigs, sha512, edPoints,
                   ped, zkVars>>

NextScalarMult ==
    \/ EdwardsAddOnce
    \/ CallScalarMult

SpecScalarMult == InitScalarMult /\ [][NextScalarMult]_vars

----------------------------------------------------------------------------
(* Clamping: the scalar generateEdDSAKeyPair takes from sha512(seed), for  *)
(* every value of the bytes of the digest that make the scalar.            *)

\* the digests sha512 can return for a seed: every value of the bytes the
\* scalar is made of, followed by the bytes that are the prefix
ClampDigests ==
    {b \o Zeros(EncLen) : b \in [1 .. EncLen -> 0 .. 255]}

InitClamp ==
    /\ privateKey = 0
    /\ publicKey = Pt(0, 0)
    /\ messageHash = 0
    /\ signState = "idle"
    /\ sig = NoSig
    /\ memo = EmptyMemo
    /\ detSigs = << >>
    /\ res = NoCall
    /\ args \in [digest : ClampDigests]
    /\ edKey = NoEdKey
    /\ edSigs = << >>
    /\ sha512 = EmptyMemo
    /\ edRes = NoCall
    /\ edPoints = <<Pt(0, 1), Pt(0, 1)>>
    /\ PedIdle
    /\ ZkIdle

\* generateEdDSAKeyPair up to the scalar it hands to edwardsScalarMult
ClampDigest ==
    /\ edRes = NoCall
    /\ edRes' = [op |-> "clamp",
                 scalar |-> Slice(Clamp(args.digest), 0, EncLen)]
    /\ UNCHANGED <<signVars, res, args, edKey, edSigs, sha512, edPoints,
                   ped, zkVars>>

NextClamp == ClampDigest

SpecClamp == InitClamp /\ [][NextClamp]_vars

----------------------------------------------------------------------------
(* Square roots: modSqrt(a, p) is called on every a of [0, p), and         *)
(* calculateY(x, v) on every x of [0, p) with v = 0 and v = 1.             *)

InitSqrt ==
    /\ privateKey = 0
    /\ publicKey = Pt(0, 0)
    /\ messageHash = 0
    /\ signState = "idle"
    /\ sig = NoSig
    /\ memo = EmptyMemo
    /\ detSigs = << >>
    /\ res = NoCall
    /\ args \in [a : 0 .. (p - 1), v : 0 .. 1]
    /\ EdIdle
    /\ PedIdle
    /\ ZkIdle

\* modSqrt(a, p)
CallModSqrt ==
    /\ res = NoCall
    /\ res' = [op |-> "modSqrt",
               nil |-> ~modSqrtExists(args.a, p),
               out |-> IF modSqrtExists(args.a, p)
                       THEN modSqrt(args.a, p) ELSE 0]
    /\ UNCHANGED <<signVars, args, edVars, ped, zkVars>>

\* calculateY(x, v) with x = a
CallCalculateY ==
    /\ res = NoCall
    /\ res' = [op |-> "calculateY",
               nil |-> ~calculateYExists(args.a, args.v),
               out |-> IF calculateYExists(args.a, args.v)
                       THEN calculateY(args.a, args.v) ELSE 0]
    /\ UNCHANGED <<signVars, args, edVars, ped, zkVars>>

NextSqrt ==
    \/ CallModSqrt
    \/ CallCalculateY

SpecSqrt == InitSqrt /\ [][NextSqrt]_vars

----------------------------------------------------------------------------
(* The loop of sign() alone, with the nonce of the last pass kept in args. *)
(* rand.Int is fair: a nonce that ends the loop is eventually drawn.       *)

NoDraw == [randomK |-> 0, err |-> FALSE]

InitSignLoop ==
    /\ privateKey \in PrivKeys
    /\ publicKey = calculatePublicKey(privateKey)
    /\ messageHash \in MsgDigests
    /\ signState = "idle"
    /\ sig = NoSig
    /\ memo = EmptyMemo
    /\ detSigs = << >>
    /\ res = NoCall
    /\ args = NoDraw
    /\ EdIdle
    /\ PedIdle
    /\ ZkIdle

\* a pass of the loop that returns rand.Int's error where it should continue
SignLoopDrawErrorOnZero ==
    /\ signState \in {"idle", "loop"}
    /\ \E randomK \in 0 .. (curveOrder - 1) :
          LET t == signAttempt(privateKey, messageHash, randomK)
          IN  /\ signState' = CASE t.kind = "done" -> "returned"
                                [] t.kind = "retry" -> "failed"
                                [] OTHER -> "panicked"
              /\ sig' = IF t.kind = "done" THEN [r |-> t.r, s |-> t.s] ELSE sig
              /\ args' = [randomK |-> randomK, err |-> FALSE]
    /\ UNCHANGED <<privateKey, publicKey, messageHash, memo, detSigs, res,
                   edVars, ped, zkVars>>

\* sign(): one pass of the loop, with the nonce rand.Int returns
SignLoopDraw ==
    /\ signState \in {"idle", "loop"}
    /\ \E randomK \in 0 .. (curveOrder - 1) :
          LET t == signAttempt(privateKey, messageHash, randomK)
          IN  /\ signState' = CASE t.kind = "done" -> "returned"
                                [] t.kind = "retry" -> "loop"
                                [] OTHER -> "panicked"
              /\ sig' = IF t.kind = "done" THEN [r |-> t.r, s |-> t.s] ELSE sig
              /\ args' = [randomK |-> randomK, err |-> FALSE]
    /\ UNCHANGED <<privateKey, publicKey, messageHash, memo, detSigs, res,
                   edVars, ped, zkVars>>

\* sign(): rand.Int returns an error, which sign() returns
SignLoopRandFail ==
    /\ signState \in {"idle", "loop"}
    /\ signState' = "failed"
    /\ args' = [randomK |-> 0, err |-> TRUE]
    /\ UNCHANGED <<privateKey, publicKey, messageHash, sig, memo, detSigs, res,
                   edVars, ped, zkVars>>

NextSignLoop ==
    \/ SignLoopDraw
    \/ SignLoopRandFail

\* rand.Int eventually returns a nonce that ends the loop
FairDraws == WF_vars(SignLoopDraw /\ signState' = "returned")

SpecSignLoop == InitSignLoop /\ [][NextSignLoop]_vars /\ FairDraws

----------------------------------------------------------------------------
(* Live curve inputs: the additions of SpecCurveAdd, the multiplications   *)
(* of SpecMultiply and the signing runs of SpecSign, each from its own     *)
(* initial states (told apart by the fields of args).                      *)

InitLive ==
    \/ InitCurveAdd
    \/ InitMultiply
    \/ InitSign

NextLive ==
    \/ DOMAIN args = {"P", "Q"} /\ NextCurveAdd
    \/ DOMAIN args = {"P", "k", "sum"} /\ NextMultiply
    \/ DOMAIN args = DOMAIN NoArgs /\ NextSign

SpecLive == InitLive /\ [][NextLive]_vars

----------------------------------------------------------------------------
(* part_003: KZG commitments over bn254.  As for Pedersen the groups G1,   *)
(* G2 and the target group of the pairing are the group of order          *)
(* frModulus, a point written as the multiple of its generator it is, and  *)
(* bn254.Pair is the bilinear map (a*G1, b*G2) |-> a*b.                    *)

\* the largest MaxDegree given to Setup
MaxDegree == 3

\* x^e in fr
RECURSIVE frPower(_, _)
frPower(x, e) == IF e = 0 THEN 1 % frModulus ELSE (x * frPower(x, e - 1)) % frModulus

\* Setup(maxDegree) for the tau that rand.Int returns
Setup(maxDegree, tau) ==
    [G1Powers |-> [i \in 1 .. (maxDegree + 1) |->
                      G1ScalarMultiplication(1, frPower(tau, i - 1))],
     G2Powers |-> <<1, G1ScalarMultiplication(1, tau)>>,
     MaxDegree |-> maxDegree]

\* Polynomial.Evaluate: the sum of coeff[i] * z^i
RECURSIVE EvaluateFrom(_, _, _, _, _)
EvaluateFrom(coeffs, z, i, result, zPower) ==
    IF i > Len(coeffs) THEN result
    ELSE EvaluateFrom(coeffs, z, i + 1,
                      frAdd(result, (coeffs[i] * zPower) % frModulus),
                      (zPower * z) % frModulus)

Evaluate(coeffs, z) == EvaluateFrom(coeffs, z, 1, 0, 1)

\* the loop of KZG.Commit: acc += coeff[i] * G1Powers[i]
RECURSIVE CommitFrom(_, _, _, _)
CommitFrom(kzg, coeffs, i, acc) ==
    IF i > Len(coeffs) THEN acc
    ELSE CommitFrom(kzg, coeffs, i + 1,
                    G1Add(acc, G1ScalarMultiplication(kzg.G1Powers[i],
                                                      coeffs[i])))

\* KZG.Commit
KZGCommit(kzg, coeffs) ==
    IF Len(coeffs) > kzg.MaxDegree + 1 THEN [err |-> TRUE, Value |-> 0]
    ELSE [err |-> FALSE, Value |-> CommitFrom(kzg, coeffs, 1, 0)]

\* KZG.CreateProof: make([]fr.Element, len - 1) panics for no coefficient,
\* quotient[1] and Coefficients[2] for fewer than three
KZGCreateProof(kzg, coeffs, z) ==
    IF Len(coeffs) < 3
    THEN [panic |-> TRUE, err |-> FALSE, Value |-> 0, ProofG1 |-> 0]
    ELSE LET value == Evaluate(coeffs, z)
             quotient == [i \in 1 .. (Len(coeffs) - 1) |->
                            IF i = 2 THEN coeffs[3]
                            ELSE IF i = 1
                                 THEN frAdd(coeffs[2],
                                            (coeffs[3] * z) % frModulus)
                            ELSE 0]
             proofCommitment == KZGCommit(kzg, quotient)
         IN  [panic |-> FALSE, err |-> proofCommitment.err,
              Value |-> value, ProofG1 |-> proofCommitment.Value]

\* bn254.Pair on one pair of points
Pair(P, Q) == (P * Q) % frModulus

\* KZG.Verify: e(proof, [tau]2 - [z]2) = e(C - [f(z)]1, [1]2)
KZGVerify(kzg, commitment, z, proof) ==
    LET zG2 == G1ScalarMultiplication(kzg.G2Powers[1], z)
        tauMinusZ == (kzg.G2Powers[2] - zG2) % frModulus
        yG1 == G1ScalarMultiplication(kzg.G1Powers[1], proof.Value)
        commitmentMinusY == (commitment - yG1) % frModulus
    IN  Pair(proof.ProofG1, tauMinusZ) = Pair(commitmentMinusY, kzg.G2Powers[1])

\* the polynomials: up to one coefficient more than Commit accepts
Polynomials ==
    UNION {[1 .. len -> frElements] : len \in 1 .. (MaxDegree + 2)}

InitKZG ==
    /\ privateKey = 0
    /\ publicKey = Pt(0, 0)
    /\ messageHash = 0
    /\ signState = "idle"
    /\ sig = NoSig
    /\ memo = EmptyMemo
    /\ detSigs = << >>
    /\ res = NoCall
    /\ \E tau \in frElements :
          args \in [kzg : {Setup(MaxDegree, tau)}, poly : Polynomials,
                    z : frElements]
    /\ EdIdle
    /\ PedIdle
    /\ ZkIdle

\* main: kzg.Commit(poly)
KZGCommitPolynomial ==
    /\ res = NoCall
    /\ res' = [op |-> "Commit"] @@ KZGCommit(args.kzg, args.poly)
    /\ UNCHANGED <<signVars, args, edVars, ped, zkVars>>

\* main: kzg.CreateProof(poly, z), then kzg.Verify(commitment, z, proof)
KZGProveAndVerify ==
    /\ res.op = "Commit"
    /\ ~res.err
    /\ LET proof == KZGCreateProof(args.kzg, args.poly, args.z)
       IN  res' = [op |-> "Verify", commitment |-> res.Value, proof |-> proof,
                   out |-> IF proof.panic \/ proof.err THEN FALSE
                           ELSE KZGVerify(args.kzg, res.Value, args.z, proof)]
    /\ UNCHANGED <<signVars, args, edVars, ped, zkVars>>

NextKZG ==
    \/ KZGCommitPolynomial
    \/ KZGProveAndVerify

SpecKZG == InitKZG /\ [][NextKZG]_vars

----------------------------------------------------------------------------
(* zk-solvency-demo: the Merkle tree of internal/merkle.  Byte strings are *)
(* sequences of blocks; the Poseidon hasher returns one block for what was *)
(* written to it since Reset, a different block for every input.           *)

\* the largest depth of a tree, and the largest equity of a user
MaxDepth == 2
MaxAsset == 2

\* fr.Element.Bytes() of the value v
ElementBytes(v) == <<[kind |-> "fr", pre |-> << >>, val |-> v]>>

\* hasher.Sum(nil) after the bytes input were written
Sum(input) == <<[kind |-> "sum", pre |-> input, val |-> 0]>>

\* index ^ 1
Sibling(index) == IF index % 2 = 0 THEN index + 1 ELSE index - 1

\* NewMerkleTree(depth): level i holds 2^i nil nodes
NewMerkleTree(depth) ==
    [state |-> "building", depth |-> depth, leaves |-> << >>,
     nodes |-> [level \in 0 .. depth |->
                   [i \in 0 .. (Pow2(level) - 1) |-> << >>]]]

\* the leaf AddLeaf computes for a user's assets
LeafHash(data) ==
    Sum(ElementBytes(data.Equity) \o ElementBytes(data.Debt)
        \o ElementBytes(data.Collateral))

\* MerkleTree.AddLeaf(index, data), for an index in range
AddLeaf(t, index, data) ==
    [t EXCEPT !.leaves = Append(@, LeafHash(data)),
              !.nodes[t.depth][index] = LeafHash(data)]

\* the loop of MerkleTree.CalculateRoot, from level down to 1
RECURSIVE CalculateLevels(_, _)
CalculateLevels(nodes, level) ==
    IF level = 0 THEN nodes
    ELSE CalculateLevels(
             [nodes EXCEPT ![level - 1] =
                 [i \in 0 .. (Pow2(level - 1) - 1) |->
                     Sum(nodes[level][2 * i] \o nodes[level][2 * i + 1])]],
             level - 1)

\* MerkleTree.CalculateRoot: the tree with its nodes filled in; the root
\* returned is nodes[0][0]
CalculateRoot(t) == [t EXCEPT !.state = "rooted",
                              !.nodes = CalculateLevels(t.nodes, t.depth)]

\* MerkleTree.GenerateProof(index) for an index in range: proof[level-1] of
\* the code, position level here, is the sibling at that level
GenerateProof(t, index) ==
    [level \in 1 .. t.depth |->
        t.nodes[level][Sibling(index \div Pow2(t.depth - level))]]

\* the loop of MerkleTree.VerifyProof from proof[i-1] of the code on
RECURSIVE VerifyFrom(_, _, _, _)
VerifyFrom(currentHash, index, proof, i) ==
    IF i > Len(proof) THEN currentHash
    ELSE VerifyFrom(IF index % 2 = 0 THEN Sum(currentHash \o proof[i])
                    ELSE Sum(proof[i] \o currentHash),
                    index \div 2, proof, i + 1)

\* MerkleTree.VerifyProof
VerifyProof(leaf, index, proof, root) ==
    VerifyFrom(leaf, index, proof, 1) = root

\* the assets of the users
UserAssets ==
    {[Equity |-> e, Debt |-> 0, Collateral |-> 0] : e \in 1 .. MaxAsset}

InitMerkle ==
    /\ SignIdle
    /\ EdIdle
    /\ PedIdle
    /\ tree \in {NewMerkleTree(depth) : depth \in 1 .. MaxDepth}
    /\ prover = NoProver

\* t.AddLeaf(index, data): the leaves are added at increasing indices
AddLeafToTree ==
    /\ tree.state = "building"
    /\ \E index \in 0 .. (Pow2(tree.depth) - 1), data \in UserAssets :
          /\ \A j \in index .. (Pow2(tree.depth) - 1) :
                tree.nodes[tree.depth][j] = << >>
          /\ tree' = AddLeaf(tree, index, data)
    /\ UNCHANGED <<signVars, res, args, edVars, ped, prover>>

\* t.AddLeaf with an index out of range: an error, the tree is unchanged
AddLeafOutOfRange ==
    /\ tree.state = "building"
    /\ res' = [op |-> "AddLeaf", err |-> TRUE]
    /\ UNCHANGED <<signVars, args, edVars, ped, zkVars>>

\* t.CalculateRoot() once a leaf was added
CalculateTreeRoot ==
    /\ tree.state = "building"
    /\ tree.leaves # << >>
    /\ tree' = CalculateRoot(tree)
    /\ res' = [op |-> "CalculateRoot", root |-> CalculateRoot(tree).nodes[0][0]]
    /\ UNCHANGED <<signVars, args, edVars, ped, prover>>

\* t.GenerateProof(index) for the index of a leaf, then t.VerifyProof of the
\* leaf on that proof and the root
ProveAndVerifyLeaf ==
    /\ tree.state = "rooted"
    /\ \E index \in 0 .. (Pow2(tree.depth) - 1) :
          /\ tree.nodes[tree.depth][index] # << >>
          /\ res' = [op |-> "VerifyProof", index |-> index,
                     proof |-> GenerateProof(tree, index),
                     out |-> VerifyProof(tree.nodes[tree.depth][index], index,
                                         GenerateProof(tree, index),
                                         tree.nodes[0][0])]
    /\ UNCHANGED <<signVars, args, edVars, ped, zkVars>>

NextMerkle ==
    \/ AddLeafToTree
    \/ AddLeafOutOfRange
    \/ CalculateTreeRoot
    \/ ProveAndVerifyLeaf

SpecMerkle == InitMerkle /\ [][NextMerkle]_vars

----------------------------------------------------------------------------
(* sigma.go: the sigma protocol over bn254 G1, points written as multiples *)
(* of the generator (0 is the point at infinity).                          *)

\* &bn254.G1Affine{}, the point every scalar multiplication of sigma.go
\* starts from: the zero value of the type, which is the point at infinity
ZeroValuePoint == 0

\* NewProver(privateKey)
NewProver(x) ==
    [state |-> "new", privateKey |-> x,
     publicKey |-> G1ScalarMultiplication(ZeroValuePoint, x), r |-> 0,
     A |-> 0]

\* Prover.Commit() for the r that SetRandom returns
ProverCommit(pr, r) ==
    [pr EXCEPT !.state = "committed", !.r = r,
               !.A = G1ScalarMultiplication(ZeroValuePoint, r)]

\* Prover.Response(challenge), computed with the private key x
ProverResponse(x, r, challenge) == frAdd((challenge * x) % frModulus, r)

\* Vertifier.Verify(publicKey, A, challenge, response)
VertifierVerify(Q, A, challenge, response) ==
    LET left == G1ScalarMultiplication(ZeroValuePoint, response)
        right == G1Add(G1ScalarMultiplication(Q, challenge), A)
    IN  left = right

InitSigma ==
    /\ SignIdle
    /\ EdIdle
    /\ PedIdle
    /\ tree = NoTree
    /\ prover = NoProver

\* main: privateKey by SetRandom, NewProver(privateKey)
SigmaNewProver ==
    /\ prover.state = "none"
    /\ \E x \in frElements : prover' = NewProver(x)
    /\ UNCHANGED <<signVars, res, args, edVars, ped, tree>>

\* main: prover.Commit()
SigmaCommit ==
    /\ prover.state = "new"
    /\ \E r \in frElements : prover' = ProverCommit(prover, r)
    /\ UNCHANGED <<signVars, res, args, edVars, ped, tree>>

\* main: Challenge, Response and Verify; the response is computed with the
\* prover's private key or, by someone who does not know it, with another
SigmaRespondAndVerify ==
    /\ prover.state = "committed"
    /\ res = NoCall
    /\ \E challenge \in frElements, x \in frElements :
          LET response == ProverResponse(x, prover.r, challenge)
          IN  res' = [op |-> "Vertifier.Verify", key |-> x,
                      challenge |-> challenge, response |-> response,
                      out |-> VertifierVerify(prover.publicKey, prover.A,
                                              challenge, response)]
    /\ UNCHANGED <<signVars, args, edVars, ped, zkVars>>

NextSigma ==
    \/ SigmaNewProver
    \/ SigmaCommit
    \/ SigmaRespondAndVerify

SpecSigma == InitSigma /\ [][NextSigma]_vars

----------------------------------------------------------------------------
(* Claims about the signing runs (SpecSign) *)

\* C1: every (r, s) that sign() returns for private key d and a message makes
\* verifySignature return true under the public key d*G, whatever nonce the
\* returning pass of the loop drew.
C1_SignVerifyRoundTrip ==
    res.op = "verifySignature" => res.out.valid /\ ~res.out.panic

\* a signature of a digest at or above the group order was verified by two
\* scalar multiplications
C1_Witness ==
    /\ res.op = "verifySignature"
    /\ res.out.valid
    /\ res.out.mults = 2
    /\ messageHash >= curveOrder
    /\ signState = "returned"

\* the recovery call returned exactly the public key of the run
RecoveredKey ==
    /\ ~res.out.nil
    /\ ~res.out.panic
    /\ res.out.x = publicKey.x
    /\ res.out.y = publicKey.y

\* C2: recoverPublicKey and RecoverPublicKey, applied to the (r, s, v) that
\* generateDeterministicSignature returned and the digest of the message,
\* return the signer's public key d*G.
C2_RecoveryReturnsPublicKey ==
    res.op \in {"recoverPublicKey", "RecoverPublicKey"} => RecoveredKey

\* C3: verifySignatureEthereum accepts the signature that
\* generateDeterministicSignature returned, and rejects it with s + 1.
C3_VerifyEthereumAccepts ==
    /\ res.op = "verifySignatureEthereum" => res.out.valid
    /\ res.op = "verifySignatureEthereum(s+1)" => ~res.out.valid

----------------------------------------------------------------------------
(* Claims about the calls on arbitrary arguments (SpecRange) *)

OutOfRange(x) == x <= 0 \/ x >= curveOrder

\* C8: verifySignature returns false, with no scalar multiplication and no
\* panic, whenever r or s is outside (0, n); verifySignatureEthereum returns
\* false whenever v is neither 27 nor 28.
C8_VerifyRejectsOutOfRange ==
    /\ res.op = "verifySignature" /\ (OutOfRange(args.r) \/ OutOfRange(args.s))
          => ~res.out.valid /\ res.out.mults = 0 /\ ~res.out.panic
    /\ res.op = "verifySignatureEthereum" /\ args.v \notin {27, 28}
          => ~res.out.valid /\ ~res.out.panic

\* verifySignature was called with r = n and a legal s
C8_Witness ==
    /\ res.op = "verifySignature"
    /\ args.r = curveOrder
    /\ ~OutOfRange(args.s)
    /\ ~res.out.valid
    /\ res.out.mults = 0

\* r^3 + 7 has no square root modulo p
NoSquareRoot(r) == ~HasSqrt((r * r * r) + 7, p)

\* C9: RecoverPublicKey and RecoverPublicKeyFromRSV return an error, nil
\* coordinates and attempt no scalar multiplication whenever r or s is
\* outside (0, n), v is neither 27 nor 28, or r^3 + 7 has no square root.
C9_RecoverFailureTaxonomy ==
    /\ res.op \in {"RecoverPublicKey", "RecoverPublicKeyFromRSV"}
    /\ \/ OutOfRange(args.r)
       \/ OutOfRange(args.s)
       \/ args.v \notin {27, 28}
       \/ NoSquareRoot(args.r)
    => res.out.err # "nil" /\ res.out.nil /\ res.out.mults = 0

\* C12: every (r, s) that sign returns with a nil error satisfies
\* 0 < r < n and 0 < s < n, whatever the key, the digest and the nonces
\* drawn; a draw of 0 and a draw giving r = 0 or s = 0 is discarded, and
\* sign does not panic.
C12_SignOutputRange ==
    /\ signState # "panicked"
    /\ signState = "returned" =>
          /\ 0 < sig.r /\ sig.r < curveOrder
          /\ 0 < sig.s /\ sig.s < curveOrder

\* sign returned a signature whose s is the largest value of the range,
\* for a digest above the group order
C12_Witness ==
    /\ signState = "returned"
    /\ sig.s = curveOrder - 1
    /\ sig.r > 0
    /\ messageHash >= curveOrder

\* C13: every (r, s, v) generateDeterministicSignature returns satisfies
\* 0 < r < n, 0 < s < n and v = 27 + (R.y mod 2), one of 27 and 28, for
\* R = k*G; a nonce giving r = 0 or s = 0 is not returned as a signature.
C13_DetSignatureRange ==
    \A i \in 1 .. Len(detSigs) :
        /\ 0 < detSigs[i].r /\ detSigs[i].r < curveOrder
        /\ 0 < detSigs[i].s /\ detSigs[i].s < curveOrder
        /\ detSigs[i].v = 27 + (detSigs[i].R.y % 2)
        /\ detSigs[i].v \in {27, 28}

----------------------------------------------------------------------------
(* Claims about the EdDSA runs (SpecEdDSA) *)

\* the signature verified is one eddsaSign returned for the message
\* verified
ProducedFor ==
    \E i \in 1 .. Len(edSigs) :
        /\ ~edSigs[i].panic
        /\ edSigs[i].msg = edRes.msg
        /\ edSigs[i].sig = edRes.sig

\* C4: EdDSA round trip.  eddsaVerify, called with the public key of the
\* key pair, a message and the signature eddsaSign returned for that
\* message under the private key of the pair, returns true.
C4_EdDSARoundTrip ==
    (/\ edRes.op = "eddsaVerify"
     /\ edKey # NoEdKey
     /\ edRes.publicKey = edKey.publicKey
     /\ ProducedFor)
        => edRes.out.valid /\ ~edRes.out.panic

\* C5: EdDSA tamper rejection.  eddsaVerify returns false for every
\* message other than the one the signature was produced for; it never
\* accepts a signature for a message it was not produced for.
C5_TamperRejected ==
    (edRes.op = "eddsaVerify" /\ ~ProducedFor) => ~edRes.out.valid

DecodesOnCurve(b) == OnCurve(decode(b).x, decode(b).y)

\* C14: eddsaVerify returns false, and does not panic, when the signature
\* is not 2 * EncLen bytes long (the code: 64) and when R or the public key
\* does not decode to a point of the curve.
C14_VerifyRejectsMalformed ==
    (/\ edRes.op = "eddsaVerify"
     /\ \/ Len(edRes.sig) # 2 * EncLen
        \/ ~DecodesOnCurve(edRes.publicKey)
        \/ ~DecodesOnCurve(Slice(edRes.sig, 0, EncLen)))
        => ~edRes.out.valid /\ ~edRes.out.panic

----------------------------------------------------------------------------
(* Claims about the encoding of points (SpecEncode) *)

\* C10: Edwards point encoding round trip.  Decoding what encodePublicKey
\* returns for a point of the curve yields that point again, and two
\* different points of the curve never get the same encoding.
C10_EncodingRoundTrip ==
    /\ edRes.op = "decode" =>
          \A i \in 1 .. 2 :
              /\ edRes.out[i].x = edPoints[i].x
              /\ edRes.out[i].y = edPoints[i].y
    /\ (edRes.op = "encodePublicKey" /\ edPoints[1] # edPoints[2]) =>
          edRes.out[1] # edRes.out[2]

----------------------------------------------------------------------------
(* Claims about key generation (SpecKeyGen) *)

\* C11: every private key generatePrivateKey returns with a nil error lies
\* in [1, n), and calculatePublicKey of it is not the (0,0) sentinel.
C11_PrivateKeyInRange ==
    /\ (res.op = "generatePrivateKey" /\ ~res.err) =>
          (1 <= privateKey /\ privateKey < n)
    /\ res.op = "calculatePublicKey" =>
          ~(publicKey.x = 0 /\ publicKey.y = 0)

----------------------------------------------------------------------------
(* Claims about Pedersen commitments (SpecPedersen) *)

\* Verify on a commitment with the opening Commit returned for it, and on
\* the sum of two commitments with the sum of their openings, is true
PedersenCompleteness ==
    /\ (ped.call.op = "Verify" /\ ped.call.o = ped.call.of.o) =>
          ped.call.out
    /\ ped.call.op = "Verify(Add)" => ped.call.out

\* C15, as stated: Verify(c, o) is true for (c, o) = Commit(m), Verify of
\* the sum of two commitments with the sum of their openings is true, and
\* Verify is false for an opening whose M or R differs from the committed
\* one.
C15_PedersenAsStated ==
    /\ PedersenCompleteness
    /\ (ped.call.op = "Verify" /\ ped.call.o # ped.call.of.o) =>
          ~ped.call.out

\* C15, amended: as above, with Verify false for an opening that differs
\* from the committed one in M alone or in R alone.
C15_PedersenCommitments ==
    /\ PedersenCompleteness
    /\ (/\ ped.call.op = "Verify"
        /\ (ped.call.o.M # ped.call.of.o.M) # (ped.call.o.R # ped.call.of.o.R))
          => ~ped.call.out

\* the sum of two commitments whose values and blinding factors wrap
\* around the group order was verified
C15_Witness ==
    /\ ped.call.op = "Verify(Add)"
    /\ ped.call.out
    /\ ped.commits[1].o.M + ped.commits[2].o.M >= frModulus
    /\ ped.commits[1].o.R + ped.commits[2].o.R >= frModulus

----------------------------------------------------------------------------
(* Claims about scalar multiplication (SpecMultiply) *)

\* C16: ellipticCurveMultiply(P, k) is the sum of k copies of P under
\* ellipticCurveAdd, for every point P of the curve and every k >= 0:
\* the (0,0) sentinel for k = 0, P for k = 1, the sentinel for every k that
\* is a multiple of the order of P (the group order n).
C16_MultiplyIsRepeatedAdd ==
    res.op = "ellipticCurveMultiply" =>
        /\ res.out.ok
        /\ res.out = args.sum
        /\ args.k = 0 => res.out = Pt(0, 0)
        /\ args.k = 1 => res.out = args.P
        /\ args.k % n = 0 => res.out = Pt(0, 0)

\* ellipticCurveMultiply was called with twice the group order, whose
\* upper bits make the accumulator the sentinel before the loop ends
C16_Witness ==
    /\ res.op = "ellipticCurveMultiply"
    /\ args.k = 2 * n
    /\ args.P # G
    /\ res.out = Pt(0, 0)
    /\ args.sum = Pt(0, 0)

----------------------------------------------------------------------------
(* Claims about point addition (SpecCurveAdd) *)

\* the (0,0) pair that stands for the point at infinity
IsSentinel(pt) == pt.x = 0 /\ pt.y = 0

\* the point that a line of the given slope through P and Q meets the curve
\* in, reflected
OnLine(P, Q, slope, out) ==
    /\ out.x = (slope * slope - P.x - Q.x) % p
    /\ out.y = (slope * (P.x - out.x) - P.y) % p

\* C17: ellipticCurveAdd returns the other operand when an operand is the
\* (0,0) sentinel; otherwise the sentinel when the operands share x and
\* differ in y, and when they are the same point with y = 0; otherwise the
\* point on the tangent of slope 3x^2/(2y) when the operands are equal and
\* on the chord of slope (y2-y1)/(x2-x1) when they differ.
C17_AddEdgeCases ==
    res.op = "ellipticCurveAdd" =>
        LET P == args.P
            Q == args.Q
            out == res.out
        IN  /\ out.ok
            /\ IsSentinel(P) => out = Q
            /\ IsSentinel(Q) => out = P
            /\ ~IsSentinel(P) /\ ~IsSentinel(Q) =>
                /\ P.x = Q.x /\ P.y # Q.y => out = Pt(0, 0)
                /\ P = Q /\ P.y = 0 => out = Pt(0, 0)
                /\ P = Q /\ P.y # 0 =>
                    \E slope \in 0 .. (p - 1) :
                        /\ (slope * 2 * P.y) % p = (3 * P.x * P.x) % p
                        /\ OnLine(P, Q, slope, out)
                /\ P.x # Q.x =>
                    \E slope \in 0 .. (p - 1) :
                        /\ (slope * (Q.x - P.x)) % p = (Q.y - P.y) % p
                        /\ OnLine(P, Q, slope, out)

\* a point of the curve was added to its negative
C17_Witness ==
    /\ res.op = "ellipticCurveAdd"
    /\ args.P = G
    /\ args.Q = Pt(Gx, p - Gy)
    /\ res.out = Pt(0, 0)

\* the (0,0) sentinel or a reduced point of the curve
IsPoint(pt) == pt.ok /\ (IsSentinel(pt) \/ IsOnCurve(pt.x, pt.y))

\* C18: for two operands that are each the (0,0) sentinel or a reduced point
\* with y^2 = x^3 + 7 (mod p), ellipticCurveAdd returns the sentinel or a
\* point with both coordinates in [0, p) and y^2 = x^3 + 7 (mod p).
C18_WeierstrassClosure ==
    (res.op = "ellipticCurveAdd" /\ IsPoint(args.P) /\ IsPoint(args.Q)) =>
        IsPoint(res.out)

\* two different points of the curve were added and the sum is a third
\* point of the curve
C18_Witness ==
    /\ res.op = "ellipticCurveAdd"
    /\ args.P = G
    /\ IsOnCurve(args.Q.x, args.Q.y)
    /\ args.Q.x # Gx
    /\ IsOnCurve(res.out.x, res.out.y)
    /\ res.out \notin {args.P, args.Q}

----------------------------------------------------------------------------
(* Claims about Edwards addition (SpecEdwardsAdd) *)

\* a pair of reduced coordinates that satisfies the equation of the curve
\* (the equation the base point satisfies)
IsEdwardsPoint(pt) ==
    /\ pt.ok
    /\ pt.x \in 0 .. (edP - 1)
    /\ pt.y \in 0 .. (edP - 1)
    /\ OnCurve(pt.x, pt.y)

\* C19: for any two points P, Q of the Edwards curve, equal or not,
\* edwardsAdd(P, Q) returns a point with coordinates in [0, p) that satisfies
\* the equation of the curve, and edwardsAdd(P, (0,1)) = P.
C19_EdwardsClosure ==
    (/\ edRes.op = "edwardsAdd"
     /\ IsEdwardsPoint(edPoints[1])
     /\ IsEdwardsPoint(edPoints[2])) =>
        /\ IsEdwardsPoint(edRes.out)
        /\ edPoints[2] = Pt(0, 1) => edRes.out = edPoints[1]

----------------------------------------------------------------------------
(* Claims about Edwards scalar multiplication (SpecScalarMult) *)

\* C20: edwardsScalarMult(P, bytes) is the sum of k copies of P under
\* edwardsAdd, for k the integer that bytes encodes in little-endian order,
\* and an empty or all-zero scalar gives the neutral element (0, 1).
C20_ScalarMultIsRepeatedAdd ==
    edRes.op = "edwardsScalarMult" =>
        /\ edRes.out = args.sum
        /\ args.k = 0 => edRes.out = Pt(0, 1)

----------------------------------------------------------------------------
(* Claims about the clamping (SpecClamp) *)

\* the integer a byte string encodes in little-endian order
RECURSIVE LittleEndianValue(_)
LittleEndianValue(b) ==
    IF Len(b) = 0 THEN 0 ELSE b[1] + 256 * LittleEndianValue(Tail(b))

\* C21: the scalar generateEdDSAKeyPair multiplies the base point by has
\* its lowest 3 bits cleared, its highest bit cleared and its second-highest
\* bit set (last byte in [64, 127]): read little-endian it is a multiple of
\* 8 in [2^(w-2), 2^(w-1)) for its width w in bits, for every digest.
C21_ClampedScalar ==
    edRes.op = "clamp" =>
        /\ Len(edRes.scalar) = EncLen
        /\ edRes.scalar[1] % 8 = 0
        /\ edRes.scalar[EncLen] \in 64 .. 127
        /\ LittleEndianValue(edRes.scalar) % 8 = 0
        /\ LittleEndianValue(edRes.scalar) >= Pow2(8 * EncLen - 2)
        /\ LittleEndianValue(edRes.scalar) < Pow2(8 * EncLen - 1)

\* a digest with every bit set was clamped
C21_Witness ==
    /\ edRes.op = "clamp"
    /\ args.digest[1] = 255
    /\ args.digest[EncLen] = 255
    /\ edRes.scalar[1] = 248
    /\ edRes.scalar[EncLen] = 127

----------------------------------------------------------------------------
(* Claims about the square roots (SpecSqrt) *)

\* y is a reduced square root of c modulo p
IsRoot(y, c) == y \in 0 .. (p - 1) /\ (y * y) % p = c % p

\* C22: for the prime p (p mod 4 = 3) and a in [0, p), modSqrt(a, p) returns
\* a y with y^2 mod p = a whenever there is one (0 for a = 0) and nil exactly
\* when a has no square root; calculateY(x, v) returns the root of x^3 + 7
\* whose parity is v, or nil when there is none.
C22_ModSqrt ==
    /\ res.op = "modSqrt" =>
        /\ res.nil <=> ~(\E y \in 0 .. (p - 1) : IsRoot(y, args.a))
        /\ ~res.nil => IsRoot(res.out, args.a)
        /\ args.a = 0 => ~res.nil /\ res.out = 0
    /\ res.op = "calculateY" =>
        LET c == (args.a * args.a * args.a + 7) % p
        IN  /\ res.nil <=>
                ~(\E y \in 0 .. (p - 1) : IsRoot(y, c) /\ y % 2 = args.v)
            /\ ~res.nil => IsRoot(res.out, c) /\ res.out % 2 = args.v

----------------------------------------------------------------------------
(* Claims about the EdDSA nonce (SpecEdDSA) *)

\* C23: eddsaSign derives its nonce r as H(prefix || message), for prefix
\* the second half of the sha512 digest of the seed, so that the message
\* alone is never what is hashed, and its S is (r + k*a) mod L for a the
\* clamped scalar the public key was derived from.
C23_NonceDerivation ==
    (/\ edKey.file = "part_000"
     /\ ~edKey.panic
     /\ Len(edSigs) >= 1
     /\ ~edSigs[1].panic) =>
        LET seed == edKey.privateKey
            digest == sha512[seed]
            prefix == Slice(digest, EncLen, 2 * EncLen)
            a == LittleEndianValue(Slice(Clamp(digest), 0, EncLen))
            m == edSigs[1].msg
            r == sha512[NonceInput(seed, m)]
            k == sha512[ChallengeInput(seed, m, r)]
            S == (SetBytesMod(Slice(r, 0, EncLen), edL)
                  + SetBytesMod(k, edL) * a) % edL
        IN  /\ (prefix \o m) \in DOMAIN sha512
            /\ m \notin DOMAIN sha512
            /\ Slice(edSigs[1].sig, EncLen, 2 * EncLen)
                   = Copy(Zeros(EncLen), Bytes(S))

----------------------------------------------------------------------------
(* Claims about the loop of sign() (SpecSignLoop) *)

\* the nonce k gives r = 0 or s = 0 for the key and the digest of the run:
\* s * k = d * r + e (mod n), so s = 0 exactly when d * r + e = 0 (mod n)
DrawGivesZero(k) ==
    LET r == ellipticCurveMultiply(G, k).x % curveOrder
    IN  r = 0 \/ (privateKey * r + messageHash) % curveOrder = 0

\* C24: a draw giving r = 0 or s = 0 (k = 0 included) makes sign draw again
\* and is returned neither as an error nor as a signature; sign returns an
\* error only when rand.Int fails, it does not panic, and with a fair
\* rand.Int it eventually returns.
C24_SignRetryLoop ==
    /\ [](signState # "panicked")
    /\ [](signState = "loop" => ~args.err /\ DrawGivesZero(args.randomK))
    /\ [](signState = "returned" =>
            /\ ~args.err
            /\ ~DrawGivesZero(args.randomK)
            /\ sig.r # 0
            /\ sig.s # 0)
    /\ [](signState = "failed" => args.err)
    /\ [](signAttempt(privateKey, messageHash, 0).kind = "retry")
    /\ <>(signState \in {"returned", "failed"})

\* a draw with r # 0 and s = 0 made sign draw again
C24_Witness ==
    /\ signState = "loop"
    /\ ~args.err
    /\ ellipticCurveMultiply(G, args.randomK).x % curveOrder # 0
    /\ sig = NoSig

----------------------------------------------------------------------------
(* Claims about recoverPublicKey on arbitrary arguments (SpecRange) *)

\* C25: recoverPublicKey(messageHash, r, s, v) returns (nil, nil), and no
\* point, whenever v is neither 27 nor 28, whenever r or s is outside (0, n)
\* and whenever r^3 + 7 has no square root modulo p.
C25_RecoverRejectsIllegal ==
    (/\ res.op = "recoverPublicKey"
     /\ \/ args.v \notin {27, 28}
        \/ OutOfRange(args.r)
        \/ OutOfRange(args.s)
        \/ NoSquareRoot(args.r))
    => res.out.nil /\ ~res.out.panic

----------------------------------------------------------------------------
(* Claims about live curve inputs (SpecLive) *)

\* C26: when both operands of ellipticCurveAdd are the (0,0) sentinel or
\* reduced points of the curve, the denominator handed to ModInverse (2*y1
\* in doubling, x2 - x1 in addition) is not 0 modulo p and the call does not
\* panic; no step of ellipticCurveMultiply, sign, verifySignature or
\* RecoverPublicKey panics on a nil slope.
C26_NoNilInverse ==
    /\ (res.op = "ellipticCurveAdd" /\ IsPoint(args.P) /\ IsPoint(args.Q)) =>
        /\ res.out.ok
        /\ (~IsSentinel(args.P) /\ args.P = args.Q /\ res.out # Pt(0, 0))
              => (2 * args.P.y) % p # 0
        /\ (~IsSentinel(args.P) /\ ~IsSentinel(args.Q) /\ args.P # args.Q
                /\ res.out # Pt(0, 0))
              => (args.Q.x - args.P.x) % p # 0
    /\ res.op = "ellipticCurveMultiply" => res.out.ok /\ args.sum.ok
    /\ signState # "panicked"
    /\ res.op \in {"verifySignature", "RecoverPublicKey"} => ~res.out.panic

\* a point of the curve was doubled by ellipticCurveAdd
C26_Witness ==
    /\ res.op = "ellipticCurveAdd"
    /\ args.P = args.Q
    /\ IsOnCurve(args.P.x, args.P.y)
    /\ res.out.ok
    /\ IsOnCurve(res.out.x, res.out.y)

----------------------------------------------------------------------------
(* Claims about the KZG proofs (SpecKZG) *)

\* the coefficients of q with f(x) - f(z) = q(x) * (x - z), by synthetic
\* division from the leading coefficient down: q[i] = f[i+1] + z * q[i+1]
RECURSIVE QuotientCoefficient(_, _, _)
QuotientCoefficient(f, z, i) ==
    IF i >= Len(f) THEN 0
    ELSE (f[i + 1] + z * QuotientCoefficient(f, z, i + 1)) % frModulus

Quotient(f, z) == [i \in 1 .. (Len(f) - 1) |-> QuotientCoefficient(f, z, i)]

\* the value of the polynomial f at z
PolynomialValue(f, z) ==
    (f[1] + z * QuotientCoefficient(f, z, 1)) % frModulus

\* C27: for every polynomial f of at most MaxDegree + 1 coefficients and
\* every z, CreateProof(f, z) returns Value = f(z) and the commitment to
\* the quotient q with f(x) - f(z) = q(x) * (x - z), and Verify accepts it
\* for Commit(f); Commit returns an error for more coefficients.
C27_KZGEvaluationProof ==
    /\ res.op = "Commit" =>
          (res.err <=> Len(args.poly) > args.kzg.MaxDegree + 1)
    /\ res.op = "Verify" =>
          /\ ~res.proof.panic
          /\ ~res.proof.err
          /\ res.proof.Value = PolynomialValue(args.poly, args.z)
          /\ res.proof.ProofG1
                = KZGCommit(args.kzg, Quotient(args.poly, args.z)).Value
          /\ res.out

----------------------------------------------------------------------------
(* Claims about the Merkle tree (SpecMerkle) *)

\* C28: once the leaves were added and CalculateRoot has run, VerifyProof of
\* a leaf, its index, GenerateProof(index) and the root returns true, and
\* the proof lists the siblings in the order VerifyProof takes them: the
\* sibling at the leaf level first.
C28_MerkleProofRoundTrip ==
    res.op = "VerifyProof" =>
        /\ res.out
        /\ \A i \in 1 .. tree.depth :
              res.proof[i]
                  = tree.nodes[tree.depth - i + 1]
                              [Sibling(res.index \div Pow2(i - 1))]

----------------------------------------------------------------------------
(* Claims about the sigma protocol (SpecSigma) *)

\* C29: Verify accepts the transcript of the prover (Q = x*G, A = r*G,
\* z = r + e*x) and rejects a response r + e*x' computed with a private key
\* x' # x for a challenge e # 0; the public key NewProver computes is x*G
\* for a generator G that is not the identity.
C29_SigmaSoundness ==
    /\ prover.state # "none" =>
          \E g \in 1 .. (frModulus - 1) :
              prover.publicKey = G1ScalarMultiplication(g, prover.privateKey)
    /\ res.op = "Vertifier.Verify" =>
          /\ res.key = prover.privateKey => res.out
          /\ (res.key # prover.privateKey /\ res.challenge # 0) => ~res.out

----------------------------------------------------------------------------
(* Claims about the deterministic nonce (SpecSign) *)

\* C30: the k that generateDeterministicK returns is the digest modulo n,
\* or 1 when that is 0, so 1 <= k < n: the R of every signature of
\* generateDeterministicSignature is k*G for that k, never the (0,0) of
\* k = 0, and its s is (d*r + e)/k for an invertible k.
C30_DeterministicKRange ==
    \A i \in 1 .. Len(detSigs) :
        \E k \in {1, memo[NonceQuery] % curveOrder} \cap 1 .. (curveOrder - 1) :
            /\ k = memo[NonceQuery] % curveOrder
                  \/ memo[NonceQuery] % curveOrder = 0
            /\ detSigs[i].R = ellipticCurveMultiply(G, k)
            /\ detSigs[i].R # Pt(0, 0)
            /\ (detSigs[i].s * k) % curveOrder
                  = (privateKey * detSigs[i].r + messageHash) % curveOrder

\* generateDeterministicSignature was called when the digest the nonce is
\* taken from is the group order, which is 0 modulo n: the nonce was 1
C30_Witness ==
    /\ Len(detSigs) >= 1
    /\ memo[NonceQuery] = curveOrder
    /\ detSigs[1].R = G
    /\ detSigs[1].r = Gx % curveOrder

====
